---- MODULE Spec2Model ----
(***************************************************************************)
(* Model of the bus-auth worker: the magic-code challenge flow             *)
(* (src/src/routes/auth.ts), the fixed-window rate limiter                 *)
(* (src/src/lib/rate-limit.ts), the identity-token signer and verifier     *)
(* (src/src/services/crypto.ts) and the entitlement-token endpoint         *)
(* (src/src/index.ts, src/unnamed/part_008).                               *)
(*                                                                         *)
(* Strings are sequences of one-character strings, so that trimming,       *)
(* lower-casing, the email pattern and the character loop of               *)
(* constantTimeEqual are computed as the code computes them.  SHA-256 and  *)
(* Ed25519 are idealised: the digest is an injective tagging of its input, *)
(* a signature names the key pair and the exact message it was made over.  *)
(***************************************************************************)
EXTENDS Integers, Sequences, FiniteSets, TLC

\* ------------------------------------------------------------------ bounds
MaxTicks == 3
MaxReqs == 3

\* ------------------------------------------------------- program constants
MagicTtl == 900
StartIpLimit == 5
StartEmailLimit == 3
VerifyIpLimit == 10
RateWindow == 900
MinTtl == 60
CodeLength == 6
IdentityTtl == 604800

\* ----------------------------------------------------------------- strings
Whitespace == {" "}

ToLowerChar(ch) ==
  CASE ch = "A" -> "a"
    [] ch = "B" -> "b"
    [] OTHER -> ch

\* String.prototype.toLowerCase
toLowerCase(s) == [i \in 1..Len(s) |-> ToLowerChar(s[i])]

RECURSIVE trimStart(_)
trimStart(s) ==
  IF s # <<>> /\ Head(s) \in Whitespace THEN trimStart(Tail(s)) ELSE s

RECURSIVE trimEnd(_)
trimEnd(s) ==
  IF s # <<>> /\ s[Len(s)] \in Whitespace
    THEN trimEnd(SubSeq(s, 1, Len(s) - 1))
    ELSE s

\* String.prototype.trim
trim(s) == trimEnd(trimStart(s))

\* an email taken as the caller wrote it
asSubmitted(raw) == raw

\* rawEmail.trim().toLowerCase()
normalizeEmail(raw) == toLowerCase(trim(raw))

\* /^[^\s@]+@[^\s@]+\.[^\s@]+$/.test(email)
isValidEmail(s) ==
  /\ \A i \in 1..Len(s) : s[i] \notin Whitespace
  /\ Cardinality({i \in 1..Len(s) : s[i] = "@"}) = 1
  /\ \E i \in 2..Len(s) :
       /\ s[i] = "@"
       /\ \E j \in (i + 2)..(Len(s) - 1) : s[j] = "."

\* ------------------------------------------------------------------ inputs
EmailA == <<"a", "@", "b", ".", "c">>
EmailAUpper == <<"A", "@", "b", ".", "c">>
EmailAPadded == <<" ", "a", "@", "b", ".", "c">>
EmailB == <<"b", "@", "b", ".", "c">>
EmailBad == <<"a", "b">>

RawEmails == {EmailA, EmailAUpper, EmailAPadded, EmailB, EmailBad}

Emails == {normalizeEmail(r) : r \in {x \in RawEmails : isValidEmail(normalizeEmail(x))}}

CodeDigits == {"1", "2"}

WrongCode == <<"9", "9", "9", "9", "9", "9">>

IpHeaders == {<<>>}

\* ------------------------------------------------------------------ crypto
\* hashString: hex SHA-256 of the input, idealised as an injective tagging
hashString(input) == <<"#">> \o input

\* generateNumericCode(length): the codes the random source can produce here
generateNumericCode(length) ==
  IF length <= 0 THEN {<<>>}
  ELSE {[i \in 1..length |-> d] : d \in CodeDigits}

\* `${code}:${email}`
hashInput(code, email) == code \o <<":">> \o email

RECURSIVE xorAccumulate(_, _, _)
\* the loop of constantTimeEqual: TRUE iff the accumulated result is still 0
xorAccumulate(a, b, i) ==
  IF i > Len(a) THEN TRUE
  ELSE (a[i] = b[i]) /\ xorAccumulate(a, b, i + 1)

\* a comparison that looks at the lengths only
lengthsEqual(a, b) == Len(a) = Len(b)

constantTimeEqual(a, b) ==
  IF Len(a) # Len(b) THEN FALSE ELSE xorAccumulate(a, b, 1)

\* ------------------------------------------------------------------ tokens
\* A JSON value carries its JavaScript type.  A JSON text is an object text
\* (its fields), the text "null", or a text JSON.parse rejects.  A segment is
\* the base64url spelling of a text or of signature bytes ("form" 0 is the
\* spelling base64urlEncode emits, 1 another spelling that decodes to the
\* same bytes), or a string atob rejects.  A token is the sequence of its
\* dot-separated segments.
Num(n) == [t |-> "number", n |-> n, s |-> <<>>]
Str(s) == [t |-> "string", n |-> 0, s |-> s]
Bool(b) == [t |-> "boolean", n |-> IF b THEN 1 ELSE 0, s |-> <<>>]
Null == [t |-> "null", n |-> 0, s |-> <<>>]
Undefined == [t |-> "undefined", n |-> 0, s |-> <<>>]

\* body.field of an untyped JSON object
Field(obj, f) == IF f \in DOMAIN obj THEN obj[f] ELSE Undefined

\* !value
Falsy(value) ==
  \/ value.t \in {"undefined", "null"}
  \/ value.t \in {"number", "boolean"} /\ value.n = 0
  \/ value.t = "string" /\ value.s = <<>>

\* t > value, for a number t (undefined and non-numeric strings give NaN)
GreaterThan(t, value) ==
  \/ value.t \in {"number", "boolean"} /\ t > value.n
  \/ value.t = "null" /\ t > 0

\* value !== literal
StrictEq(value, literal) == value = literal

JsonObject(obj) == [kind |-> "object", obj |-> obj]
JsonNull == [kind |-> "null"]
JsonGarbage == [kind |-> "garbage"]

\* JSON.stringify
jsonStringify(obj) == JsonObject(obj)

\* JSON.parse throws
jsonParseThrows(text) == text.kind \notin {"object", "null"}

\* base64urlEncode / base64urlEncodeString
base64urlEncode(data) == [kind |-> "b64", data |-> data, form |-> 0]

NotBase64 == [kind |-> "notb64"]

\* atob throws on a string that is not base64
base64urlDecodeThrows(seg) == seg.kind # "b64"

\* base64urlDecodeToBytes / base64urlDecodeToString
base64urlDecode(seg) == seg.data

KeyPairs == {"identity", "entitlement"}

PrivateKey(pair) == [pair |-> pair, half |-> "private"]
PublicKey(pair) == [pair |-> pair, half |-> "public"]

\* crypto.subtle.sign("Ed25519", key, utf8Encode(signingInput))
cryptoSign(privateKey, signingInput) ==
  [kind |-> "sig", signer |-> privateKey.pair, msg |-> signingInput]

\* a verification that accepts a signature made with any key
cryptoVerifyAnyKey(publicKey, signatureBytes, signingInput) ==
  /\ signatureBytes.kind = "sig"
  /\ signatureBytes.msg = signingInput

\* crypto.subtle.verify("Ed25519", key, signatureBytes, utf8Encode(signingInput))
cryptoVerify(publicKey, signatureBytes, signingInput) ==
  /\ signatureBytes.kind = "sig"
  /\ signatureBytes.signer = publicKey.pair
  /\ signatureBytes.msg = signingInput

JwtHeader == [alg |-> Str(<<"EdDSA">>), typ |-> Str(<<"JWT">>)]

\* `${headerEncoded}.${payloadEncoded}`
signingInputOf(headerEncoded, payloadEncoded) == <<headerEncoded, payloadEncoded>>

\* the claim set of signIdentityToken's earlier definition (typ/iss claims)
identityBodyV1(email, t) ==
  [typ |-> Str(<<"identity">>), sub |-> Str(email),
   iss |-> Str(<<"auth.buscore.ca">>), iat |-> Num(t), exp |-> Num(t + IdentityTtl)]

\* fullPayload of signIdentityToken
identityPayload(email, t) ==
  [v |-> Num(1), sub |-> Str(toLowerCase(email)), aud |-> Str(<<"bus-auth">>),
   purpose |-> Str(<<"identity">>), iat |-> Num(t), exp |-> Num(t + IdentityTtl)]

\* header and payload encoded, signed, and joined
signJwt(payload, privateKey) ==
  LET headerEncoded == base64urlEncode(jsonStringify(JwtHeader))
      payloadEncoded == base64urlEncode(jsonStringify(payload))
      signingInput == signingInputOf(headerEncoded, payloadEncoded)
      signature == cryptoSign(privateKey, signingInput)
  IN  <<headerEncoded, payloadEncoded, base64urlEncode(signature)>>

\* signIdentityToken, earlier definition
signIdentityTokenV1(email, privateKey, t) ==
  signJwt(identityBodyV1(email, t), privateKey)

\* signIdentityToken
signIdentityToken(email, privateKey, t) ==
  signJwt(identityPayload(email, t), privateKey)

Rejected == [kind |-> "null", sub |-> <<>>]
Thrown == [kind |-> "throw", sub |-> <<>>]
Subject(sub) == [kind |-> "subject", sub |-> sub]

\* claim checks that turn a token away from the second of its exp on
claimsAcceptableBeforeExp(body, t) ==
  /\ ~(Falsy(Field(body, "exp")) \/ GreaterThan(t + 1, Field(body, "exp")))
  /\ ~(\/ ~StrictEq(Field(body, "aud"), Str(<<"bus-auth">>))
       \/ ~StrictEq(Field(body, "purpose"), Str(<<"identity">>))
       \/ ~StrictEq(Field(body, "v"), Num(1)))
  /\ ~Falsy(Field(body, "sub"))

\* claim checks that do not look at aud, purpose and v
claimsAcceptableUntagged(body, t) ==
  /\ ~(Falsy(Field(body, "exp")) \/ GreaterThan(t, Field(body, "exp")))
  /\ ~Falsy(Field(body, "sub"))

\* the claim checks of verifyIdentityToken: exp, then aud/purpose/v, then sub
claimsAcceptable(body, t) ==
  /\ ~(Falsy(Field(body, "exp")) \/ GreaterThan(t, Field(body, "exp")))
  /\ ~(\/ ~StrictEq(Field(body, "aud"), Str(<<"bus-auth">>))
       \/ ~StrictEq(Field(body, "purpose"), Str(<<"identity">>))
       \/ ~StrictEq(Field(body, "v"), Num(1)))
  /\ ~Falsy(Field(body, "sub"))

\* a signature check over the claim segment re-encoded from its decoded bytes
signatureValidReencoded(token, publicKey) ==
  cryptoVerify(publicKey, base64urlDecode(token[3]),
               signingInputOf(token[1], base64urlEncode(base64urlDecode(token[2]))))

\* the signature check of verifyIdentityToken, over the segments as received
signatureValid(token, publicKey) ==
  cryptoVerify(publicKey, base64urlDecode(token[3]),
               signingInputOf(token[1], token[2]))

\* verifyIdentityToken(token, publicKeyPem) run at time t
verifyIdentityToken(token, publicKey, t) ==
  IF Len(token) # 3 THEN Rejected
  ELSE IF base64urlDecodeThrows(token[2]) THEN Rejected
  ELSE IF jsonParseThrows(base64urlDecode(token[2])) THEN Rejected
  ELSE IF base64urlDecode(token[2]).kind = "null" THEN Thrown
  ELSE IF ~claimsAcceptable(base64urlDecode(token[2]).obj, t) THEN Rejected
  ELSE IF base64urlDecodeThrows(token[3]) THEN Thrown
  ELSE IF ~signatureValid(token, publicKey) THEN Rejected
  ELSE Subject(Field(base64urlDecode(token[2]).obj, "sub").s)

\* getExpFromJwt
getExpFromJwt(token) ==
  IF Len(token) < 2 THEN 0
  ELSE IF base64urlDecodeThrows(token[2]) THEN 0
  ELSE IF jsonParseThrows(base64urlDecode(token[2])) THEN 0
  ELSE IF base64urlDecode(token[2]).kind = "null" THEN 0
  ELSE LET exp == Field(base64urlDecode(token[2]).obj, "exp")
       IN  IF exp.t = "number" THEN exp.n ELSE 0

NoToken == <<>>

\* ------------------------------------------------------------------- state
VARIABLES
  now,      \* Math.floor(Date.now() / 1000)
  ticks,    \* clock steps taken
  reqs,     \* requests handled
  links,    \* rows of auth_magic_links
  kv,       \* RATE_LIMITS: bucket -> stored "count:reset" with its KV expiry
  outbox,   \* mails handed to the email collaborator
  issued,   \* per email: the code last issued, when, and the tokens minted for it
  hist,     \* the last request handled and its response
  inflight, \* verify requests between their SELECT and their DELETE
  tok,      \* the token under test: how it was signed, altered and verified
  ent,      \* the entitlement endpoint: its table, its limiter, its last response
  lim,      \* the limiter on its own: its arguments, its last call, the window
  calc,     \* the challenge hash on its own: its arguments and results
  log,      \* console lines written by the last /magic/start or /magic/verify
  keyring   \* the cached entitlement signing key and the imports made so far

vars ==
  <<now, ticks, reqs, links, kv, outbox, issued, hist, inflight, tok, ent, lim, calc, log,
    keyring>>

\* the clock visits 0, 899, 900, 901, 1800, 1801, 1802, ...: just before, at
\* and just after each multiple of the code TTL and of the rate window
ClockStep(k) == IF k % 3 = 0 THEN MagicTtl - 1 ELSE 1

\* ------------------------------------------------------------ rate limiter
Scopes == {"magic:start:ip", "magic:start:email", "magic:verify:ip"}

DefaultIp == <<"0.0.0.0">>

\* c.req.header("CF-Connecting-IP") ?? "0.0.0.0"
ipOf(header) == IF header = <<>> THEN DefaultIp ELSE header

Ips == {ipOf(h) : h \in IpHeaders}

\* `${scope}:${key}`
bucketOf(scope, key) == <<scope, ":">> \o key

Buckets ==
  {bucketOf("magic:start:ip", ip) : ip \in Ips}
    \cup {bucketOf("magic:verify:ip", ip) : ip \in Ips}
    \cup {bucketOf("magic:start:email", e) : e \in Emails}

NoEntry == [count |-> 0, reset |-> 0, ttlEnd |-> 0]

Max(a, b) == IF a >= b THEN a ELSE b
Min(a, b) == IF a <= b THEN a ELSE b

\* a read that never finds what was stored
kvGetNothing(store, bucket, t) == NoEntry

\* a read that reports one call more than was stored
kvGetCountingTwice(store, bucket, t) ==
  IF store[bucket].ttlEnd > t THEN [store[bucket] EXCEPT !.count = @ + 1] ELSE NoEntry

\* kv.get(bucket): null once the expirationTtl has run out
kvGet(store, bucket, t) ==
  IF store[bucket].ttlEnd > t THEN store[bucket] ELSE NoEntry

\* a window that is never taken to have elapsed
windowNeverElapsed(t, reset) == FALSE

\* a window that is taken to have elapsed at every call
windowAlwaysElapsed(t, reset) == TRUE

\* now >= reset
windowElapsed(t, reset) == t >= reset

\* assertRateLimit(c, scope, key, limit, windowSec) at time t:
\* the store after the put, whether the call is rejected, and the reset reported
assertRateLimit(store, scope, key, limit, windowSec, t) ==
  LET bucket == bucketOf(scope, key)
      raw == kvGet(store, bucket, t)
      window == Max(windowSec, MinTtl)
      fresh == t + window
      storedCount == raw.count
      storedReset == IF raw.reset # 0 THEN raw.reset ELSE fresh
      elapsed == raw # NoEntry /\ windowElapsed(t, storedReset)
      count0 == IF raw = NoEntry \/ elapsed THEN 0 ELSE storedCount
      reset == IF raw = NoEntry \/ elapsed THEN fresh ELSE storedReset
      count == count0 + 1
      ttl == Max(MinTtl, reset - t)
  IN  [store |-> [store EXCEPT ![bucket] =
                    [count |-> count, reset |-> reset, ttlEnd |-> t + ttl]],
       limited |-> count > limit,
       reset |-> reset]

\* --------------------------------------------------------------- responses
Response(status, ok, error, token, exp, reset) ==
  [status |-> status, ok |-> ok, error |-> error, token |-> token,
   exp |-> exp, reset |-> reset]

OkTrue == Response(200, TRUE, "", NoToken, 0, 0)
InvalidInput == Response(400, FALSE, "invalid_input", NoToken, 0, 0)
InvalidOrExpired == Response(200, FALSE, "invalid_or_expired", NoToken, 0, 0)
RateLimited(reset) == Response(429, FALSE, "rate_limited", NoToken, 0, reset)
TokenResponse(token) == Response(200, TRUE, "", token, getExpFromJwt(token), 0)

\* what the framework answers when a handler throws
InternalServerError == Response(500, FALSE, "Internal Server Error", NoToken, 0, 0)

\* ---------------------------------------------------------- challenge store
Row(email, codeHash, expiresAt, createdAt, ip) ==
  [email |-> email, code_hash |-> codeHash, expires_at |-> expiresAt,
   created_at |-> createdAt, ip_address |-> ip]

\* a plain INSERT into a table without the primary key
insertKeepingOld(rows, row) == rows \cup {row}

\* an INSERT that is rolled back
insertRolledBack(rows, row) == rows

\* INSERT OR REPLACE INTO auth_magic_links ... (email is the PRIMARY KEY)
insertOrReplace(rows, row) ==
  {r \in rows : r.email # row.email} \cup {row}

\* SELECT code_hash, expires_at FROM auth_magic_links WHERE email = ?
selectByEmail(rows, email) == {r \in rows : r.email = email}

\* a DELETE that removes nothing
deleteNothing(rows, email) == rows

\* DELETE FROM auth_magic_links WHERE email = ?
deleteByEmail(rows, email) == {r \in rows : r.email # email}

\* record.expires_at <= now
isExpired(record, t) == record.expires_at <= t

\* bookkeeping per email: the code of the latest issuance and when it was issued,
\* tokens minted and mismatches seen since, the code of the issuance before it
NeverIssued ==
  [code |-> <<>>, at |-> 0, tokens |-> 0, misses |-> 0, prev |-> <<>>, prevAt |-> 0,
   n |-> 0]

Entry(op, email, code, t, resp, pre, before) ==
  [op |-> op, email |-> email, code |-> code, at |-> t, resp |-> resp,
   pre |-> pre, before |-> before, fault |-> "none", raw |-> <<>>]

\* the same, for a request during which the store or mail operation `fault` failed
Failed(entry, fault) == [entry EXCEPT !.fault = fault]

\* the same, keeping the email field of the body as the caller wrote it
Submitted(entry, raw) == [entry EXCEPT !.raw = raw]

\* the operation of /magic/start that fails, if any: the KV of the first or of
\* the second limiter call, the INSERT, the mail delivery
StartFaults == {"none", "kv_ip", "kv_email", "db_insert", "mail"}

\* the operation of /magic/verify that fails, if any: the KV of the limiter
\* call, the SELECT, the DELETE
VerifyFaults == {"none", "kv", "db_select", "db_delete"}

\* only the last request is kept
push(h, e) == <<e>>

\* the request handled last
Last == hist[1]

NoTokenUnderTest == [phase |-> "none"]
NoEntitlementState == [phase |-> "none"]
NoLimiterState == [phase |-> "none"]
NoHashes == [phase |-> "none"]
NoKeys == [phase |-> "none"]

IdentityPrivateKey == PrivateKey("identity")
IdentityPublicKey == PublicKey("identity")

Init ==
  /\ now = 0
  /\ ticks = 0
  /\ reqs = 0
  /\ links = {}
  /\ kv = [b \in Buckets |-> NoEntry]
  /\ outbox = {}
  /\ issued = [e \in Emails |-> NeverIssued]
  /\ hist = <<>>
  /\ inflight = {}
  /\ tok = NoTokenUnderTest
  /\ calc = NoHashes
  /\ log = {}
  /\ keyring = NoKeys
  /\ ent = NoEntitlementState
  /\ lim = NoLimiterState

Tick ==
  /\ ticks < MaxTicks
  /\ now' = now + ClockStep(ticks)
  /\ ticks' = ticks + 1
  /\ UNCHANGED <<reqs, links, kv, outbox, issued, hist, inflight, tok, ent, lim, calc, log,
                 keyring>>

\* ------------------------------------------------------------ console lines
\* one console.log / console.warn / console.error call, or one response header:
\* its fixed text and the values written with it
Line(sink, text, data) == [sink |-> sink, line |-> text, data |-> data]
Console(text, data) == Line("console", text, data)

\* what /magic/start of auth.ts logs up to the point it has reached
startEntryLog ==
  {Console("[magic:start] handler entry", {}), Console("[magic:start] content-type", {})}
startParsedLog(email) ==
  startEntryLog \cup
    (IF email = <<>> THEN {Console("[magic:start] early-exit: missing email", {})}
     ELSE {Console("[magic:start] parsed email", {email})})
startPassedLog(email) ==
  startParsedLog(email) \cup {Console("[magic:start] passed rate limit", {})}
startPersistedLog(email) ==
  startPassedLog(email) \cup
    {Console("[magic:start] code persisted", {}),
     Console("[magic:start] about to send", {email})}

\* sendMagicEmail and the lines around it: the request line names to, from and
\* subject, never the text
sendLog(email, delivered) ==
  {Console("[email] resend request", {email}), Console("[email] resend response", {})}
    \cup (IF delivered THEN {Console("[magic:start] send completed", {email})}
          ELSE {Console("[magic:start] send failed", {email, <<"resend_failed">>})})

\* what /magic/verify of auth.ts logs
verifyLog(email, resp, failed) ==
  IF resp.token # NoToken THEN {Console("[magic:verify] ok", {email})}
  ELSE IF failed \in {"db_select", "db_delete"}
    THEN {Console("magic_verify_error", {<<"db_error">>})}
  ELSE IF failed = "sign" THEN {Console("magic_verify_error", {<<"sign_error">>})}
  ELSE {}

\* POST /magic/start with a JSON body {email: raw}; fault names the store or
\* mail operation that fails during the request, if it is reached
MagicStart(raw, ipHeader, fault) ==
  LET email == normalizeEmail(raw)
      ip == ipOf(ipHeader)
      done(resp, store, failed, lines) ==
        /\ kv' = store
        /\ log' = lines
        /\ hist' = push(hist, Failed(Entry("start", email, <<>>, now, resp, links,
                                            NeverIssued), failed))
        /\ UNCHANGED <<links, outbox, issued>>
  IN
  /\ reqs < MaxReqs
  /\ reqs' = reqs + 1
  /\ UNCHANGED <<now, ticks, inflight, tok, ent, lim, calc, keyring>>
  /\ IF email = <<>> \/ ~isValidEmail(email) THEN done(OkTrue, kv, "none", startParsedLog(email))
     ELSE IF fault = "kv_ip" THEN done(InternalServerError, kv, fault, startParsedLog(email))
     ELSE
       LET byIp == assertRateLimit(kv, "magic:start:ip", ip, StartIpLimit, RateWindow, now) IN
       IF byIp.limited THEN done(RateLimited(byIp.reset), byIp.store, "none", startParsedLog(email))
       ELSE IF fault = "kv_email" THEN done(InternalServerError, byIp.store, fault,
                                            startParsedLog(email))
       ELSE
         LET byEmail == assertRateLimit(byIp.store, "magic:start:email", email,
                                        StartEmailLimit, RateWindow, now) IN
         IF byEmail.limited THEN done(RateLimited(byEmail.reset), byEmail.store, "none",
                                     startParsedLog(email))
         ELSE IF fault = "db_insert"
           THEN done(OkTrue, byEmail.store, fault,
                     startPassedLog(email)
                       \cup {Console("magic_start_error", {<<"db_error">>})})
         ELSE
           \E code \in generateNumericCode(CodeLength) :
             LET tokenHash == hashString(hashInput(code, email))
                 expiresAt == now + MagicTtl
             IN
             /\ kv' = byEmail.store
             /\ log' = startPersistedLog(email) \cup sendLog(email, fault # "mail")
             /\ links' = insertOrReplace(links, Row(email, tokenHash, expiresAt, now, ip))
             /\ outbox' = IF fault # "mail" THEN outbox \cup {[to |-> email, code |-> code]}
                          ELSE outbox
             /\ issued' = [issued EXCEPT ![email] =
                             [code |-> code, at |-> now, tokens |-> 0, misses |-> 0,
                              prev |-> issued[email].code, prevAt |-> issued[email].at,
                              n |-> issued[email].n + 1]]
             /\ hist' = push(hist, Failed(Entry("start", email, code, now, OkTrue, links,
                                                issued[email]),
                                          IF fault = "mail" THEN fault ELSE "none"))

\* POST /magic/verify with a JSON body {email: raw, code: code}; fault names
\* the store operation that fails during the request, if it is reached
MagicVerify(raw, code, ipHeader, fault) ==
  LET email == normalizeEmail(raw)
      ip == ipOf(ipHeader)
      before == IF email \in Emails THEN issued[email] ELSE NeverIssued
      done(resp, store, rows, miss, failed) ==
        /\ kv' = store
        /\ links' = rows
        /\ log' = verifyLog(email, resp, failed)
        /\ hist' = push(hist, Submitted(Failed(Entry("verify", email, code, now, resp, links,
                                                      before), failed), raw))
        /\ issued' = IF resp.token # NoToken
                       THEN [issued EXCEPT ![email].tokens = @ + 1]
                     ELSE IF miss THEN [issued EXCEPT ![email].misses = 1]
                     ELSE issued
        /\ UNCHANGED outbox
  IN
  /\ reqs < MaxReqs
  /\ reqs' = reqs + 1
  /\ UNCHANGED <<now, ticks, inflight, tok, ent, lim, calc, keyring>>
  /\ IF ~isValidEmail(email) \/ code = <<>> THEN done(InvalidInput, kv, links, FALSE, "none")
     ELSE IF fault = "kv" THEN done(InternalServerError, kv, links, FALSE, fault)
     ELSE
       LET byIp == assertRateLimit(kv, "magic:verify:ip", ip, VerifyIpLimit, RateWindow, now) IN
       IF byIp.limited THEN done(RateLimited(byIp.reset), byIp.store, links, FALSE, "none")
       ELSE IF fault = "db_select"
         THEN done(InvalidOrExpired, byIp.store, links, FALSE, fault)
       ELSE
         LET found == selectByEmail(links, email) IN
         IF found = {} THEN done(InvalidOrExpired, byIp.store, links, FALSE, "none")
         ELSE
           \E record \in found :
             IF isExpired(record, now)
               THEN IF fault = "db_delete"
                      THEN done(InvalidOrExpired, byIp.store, links, FALSE, fault)
                      ELSE done(InvalidOrExpired, byIp.store, deleteByEmail(links, email),
                                FALSE, "none")
             ELSE IF ~constantTimeEqual(hashString(hashInput(code, email)), record.code_hash)
               THEN done(InvalidOrExpired, byIp.store, links, TRUE, "none")
             ELSE IF fault = "db_delete"
               THEN done(InvalidOrExpired, byIp.store, links, FALSE, fault)
             ELSE IF fault = "sign"
               THEN done(InvalidOrExpired, byIp.store, deleteByEmail(links, email), FALSE,
                         fault)
             ELSE done(TokenResponse(signIdentityToken(email, IdentityPrivateKey, now)),
                       byIp.store, deleteByEmail(links, email), FALSE, "none")

SubmittedCodes == generateNumericCode(CodeLength) \cup {WrongCode, <<>>}

\* the malformed email is tried with one code only: its response is the same for all
VerifyInputs ==
  {in \in RawEmails \X SubmittedCodes : in[1] = EmailBad => in[2] = WrongCode}

Next ==
  \/ Tick
  \/ \E raw \in RawEmails, ipHeader \in IpHeaders : MagicStart(raw, ipHeader, "none")
  \/ \E in \in VerifyInputs, ipHeader \in IpHeaders : MagicVerify(in[1], in[2], ipHeader, "none")

Spec == Init /\ [][Next]_vars

\* the routes while store and mail operations may fail, asked about one email
NextFaults ==
  \/ Tick
  \/ \E ipHeader \in IpHeaders, fault \in StartFaults : MagicStart(EmailA, ipHeader, fault)
  \/ \E code \in SubmittedCodes, ipHeader \in IpHeaders, fault \in VerifyFaults :
       MagicVerify(EmailAUpper, code, ipHeader, fault)

SpecFaults == Init /\ [][NextFaults]_vars

\* C23: a /magic/start during which a store operation failed (the KV of either
\* limiter call, or the INSERT) is answered with the {ok: true} of a successful
\* issuance.
C23_StartStoreFailureLooksLikeSuccess ==
  (hist # <<>> /\ Last.op = "start" /\ Last.fault \in {"kv_ip", "kv_email", "db_insert"}) =>
    Last.resp = OkTrue

\* C23 witness: the KV failed during the limiter call of a start
C23_KvFailedDuringStart ==
  /\ hist # <<>>
  /\ Last.op = "start"
  /\ Last.fault = "kv_email"

\* the challenge issued by the last request is in the store and its code verifies
ChallengeStands ==
  \E row \in links :
    /\ row.email = Last.email
    /\ row.expires_at = Last.at + MagicTtl
    /\ constantTimeEqual(hashString(hashInput(Last.code, Last.email)), row.code_hash)

\* C24: when mail delivery fails in /magic/start the challenge written just
\* before stays in the store, its code still verifies, and the response is the
\* {ok: true} of a successful delivery.
C24_MailFailureKeepsChallenge ==
  (hist # <<>> /\ Last.op = "start" /\ Last.fault = "mail") =>
    /\ ChallengeStands
    /\ Last.resp = OkTrue

\* C24 witness: the mail of a start failed, its code was never mailed, and the
\* challenge is in the store
C24_MailFailed ==
  /\ hist # <<>>
  /\ Last.op = "start"
  /\ Last.fault = "mail"
  /\ [to |-> Last.email, code |-> Last.code] \notin outbox
  /\ ChallengeStands

\* the last request was a well-formed verify, not turned away by the limiter,
\* that ended without a token: no challenge, an expired one, a wrong code, or a
\* store operation that failed
AuthenticationFailed ==
  /\ hist # <<>>
  /\ Last.op = "verify"
  /\ Last.resp.token = NoToken
  /\ Last.resp.status \notin {400, 429}

\* C25: every authentication failure of /magic/verify gets the same response,
\* status and body: {ok: false, error: "invalid_or_expired"}.
C25_OneResponseForEveryFailure ==
  AuthenticationFailed => Last.resp = InvalidOrExpired

\* the failures handled inside the try block of the route get the one response
C25_FailuresInsideTryCollapse ==
  (AuthenticationFailed /\ Last.fault # "kv") => Last.resp = InvalidOrExpired

\* C25 witness: a verify failed because its SELECT failed, and was answered
\* like a wrong code
C25_SelectFailed ==
  /\ AuthenticationFailed
  /\ Last.fault = "db_select"
  /\ Last.resp = InvalidOrExpired

\* ------------------------------------------- /magic/verify when signing fails
\* signIdentityToken throws (IDENTITY_PRIVATE_KEY missing or not a key), or not
SignFaults == {"none", "sign"}

NextSign ==
  \/ Tick
  \/ \E ipHeader \in IpHeaders : MagicStart(EmailA, ipHeader, "none")
  \/ \E code \in SubmittedCodes, ipHeader \in IpHeaders, fault \in SignFaults :
       MagicVerify(EmailA, code, ipHeader, fault)

SpecSign == Init /\ [][NextSign]_vars

\* the challenges, unexpired when the last request ran, that the request removed
ConsumedByLast ==
  {row \in Last.pre : row.email = Last.email /\ ~isExpired(row, Last.at) /\ row \notin links}

\* C35: a challenge is consumed only by a request that succeeds: a /magic/verify
\* that deleted an unexpired challenge returns an identity token, also when token
\* signing fails after the match.
C35_ConsumedOnlyOnSuccess ==
  (hist # <<>> /\ Last.op = "verify" /\ ConsumedByLast # {}) => Last.resp.token # NoToken

\* C35 witness: the code matched and signing the token failed
C35_SigningFailedAfterMatch ==
  /\ hist # <<>>
  /\ Last.op = "verify"
  /\ Last.fault = "sign"
  /\ Last.code = Last.before.code

\* ------------------------------------- /magic/verify as two database steps
\* A verify request between its SELECT and its DELETE: what it read and decided
Pending(id, email, code, outcome, gen) ==
  [id |-> id, email |-> email, code |-> code, outcome |-> outcome, gen |-> gen]

\* POST /magic/verify up to the point where it awaits its DELETE: input checks,
\* limiter, SELECT, the clock read, the expiry test and the hash comparison
VerifyBegin(raw, code, ipHeader) ==
  LET email == normalizeEmail(raw)
      ip == ipOf(ipHeader)
      before == IF email \in Emails THEN issued[email] ELSE NeverIssued
      respond(resp, store, miss) ==
        /\ kv' = store
        /\ hist' = push(hist, Entry("verify", email, code, now, resp, links, before))
        /\ issued' = IF miss THEN [issued EXCEPT ![email].misses = 1] ELSE issued
        /\ UNCHANGED inflight
      await(store, outcome) ==
        /\ kv' = store
        /\ inflight' = inflight \cup {Pending(reqs + 1, email, code, outcome, before.n)}
        /\ UNCHANGED <<hist, issued>>
  IN
  /\ reqs < MaxReqs
  /\ reqs' = reqs + 1
  /\ log' = {}
  /\ UNCHANGED <<now, ticks, links, outbox, tok, ent, lim, calc, keyring>>
  /\ IF ~isValidEmail(email) \/ code = <<>> THEN respond(InvalidInput, kv, FALSE)
     ELSE
       LET byIp == assertRateLimit(kv, "magic:verify:ip", ip, VerifyIpLimit, RateWindow, now) IN
       IF byIp.limited THEN respond(RateLimited(byIp.reset), byIp.store, FALSE)
       ELSE
         LET found == selectByEmail(links, email) IN
         IF found = {} THEN respond(InvalidOrExpired, byIp.store, FALSE)
         ELSE
           \E record \in found :
             IF isExpired(record, now) THEN await(byIp.store, "expired")
             ELSE IF ~constantTimeEqual(hashString(hashInput(code, email)), record.code_hash)
               THEN respond(InvalidOrExpired, byIp.store, TRUE)
             ELSE await(byIp.store, "match")

\* the rest of POST /magic/verify: the DELETE, then on a match the token and
\* the response
VerifyComplete(p) ==
  LET before == issued[p.email]
      resp == IF p.outcome = "match"
                THEN TokenResponse(signIdentityToken(p.email, IdentityPrivateKey, now))
                ELSE InvalidOrExpired
  IN
  /\ p \in inflight
  /\ inflight' = inflight \ {p}
  /\ links' = deleteByEmail(links, p.email)
  /\ hist' = push(hist, Entry("verify", p.email, p.code, now, resp, links, before))
  /\ issued' = IF p.outcome = "match" /\ p.gen = before.n
                  THEN [issued EXCEPT ![p.email].tokens = @ + 1]
                  ELSE issued
  /\ log' = verifyLog(p.email, resp, "none")
  /\ UNCHANGED <<now, ticks, reqs, kv, outbox, tok, ent, lim, calc, keyring>>

NextRace ==
  \/ Tick
  \/ \E raw \in RawEmails, ipHeader \in IpHeaders : MagicStart(raw, ipHeader, "none")
  \/ \E in \in VerifyInputs, ipHeader \in IpHeaders : VerifyBegin(in[1], in[2], ipHeader)
  \/ \E p \in inflight : VerifyComplete(p)

SpecRace == Init /\ [][NextRace]_vars

\* C2: under any interleaving of verify requests that each read the challenge
\* and delete it later, the requests carrying the code of one issued challenge
\* obtain at most one identity token between them.
C2_OneTokenPerChallengeUnderRaces ==
  ~\E e \in Emails : issued[e].tokens >= 2

\* two verify requests for one email have both read the live challenge with the
\* correct code and neither has deleted it yet
C2_BothReadBeforeEitherDeleted ==
  \E p, q \in inflight :
    /\ p.id # q.id
    /\ p.email = q.email
    /\ p.outcome = "match"
    /\ q.outcome = "match"
    /\ p.gen = q.gen

\* the step completes verify request p, which read its challenge before the
\* latest /magic/start for the email wrote a new one
CompletesStaleVerify(p) ==
  /\ p \in inflight
  /\ inflight' = inflight \ {p}
  /\ p.gen < issued[p.email].n
  /\ selectByEmail(links, p.email) # {}

\* C34: a /magic/verify deletes only the challenge it read: a challenge written
\* by a /magic/start between the read and the delete of the verify, on the match
\* path or the expired path, is still in the store when the verify completes.
C34_VerifyDeletesOnlyWhatItRead ==
  [][\A p \in inflight :
       CompletesStaleVerify(p) =>
         selectByEmail(links', p.email) = selectByEmail(links, p.email)]_vars

\* C34 witness: a verify has read an expired challenge and awaits its delete
\* while a start has since stored a new, live challenge for the email
C34_NewChallengeBeforeDelete ==
  \E p \in inflight :
    /\ p.outcome = "expired"
    /\ p.gen < issued[p.email].n
    /\ \E row \in selectByEmail(links, p.email) : ~isExpired(row, now)

\* -------------------------------------- /magic/start as two awaited steps
\* A start request that has generated its code and awaits its INSERT
\* ("insert"), or has stored its challenge and awaits the mail ("send")
PendingStart(id, email, code, t, ip, stage) ==
  [id |-> id, email |-> email, code |-> code, at |-> t, ip |-> ip, stage |-> stage]

\* POST /magic/start up to the point where it awaits its INSERT: parsing, both
\* limiter calls, the code, its hash and the clock read (auth.ts:19-71)
StartBegin(raw, ipHeader) ==
  LET email == normalizeEmail(raw)
      ip == ipOf(ipHeader)
      respond(resp, store) ==
        /\ kv' = store
        /\ hist' = push(hist, Entry("start", email, <<>>, now, resp, links, NeverIssued))
        /\ UNCHANGED inflight
  IN
  /\ reqs < MaxReqs
  /\ reqs' = reqs + 1
  /\ log' = {}
  /\ UNCHANGED <<now, ticks, links, outbox, issued, tok, ent, lim, calc, keyring>>
  /\ IF email = <<>> \/ ~isValidEmail(email) THEN respond(OkTrue, kv)
     ELSE
       LET byIp == assertRateLimit(kv, "magic:start:ip", ip, StartIpLimit, RateWindow, now) IN
       IF byIp.limited THEN respond(RateLimited(byIp.reset), byIp.store)
       ELSE
         LET byEmail == assertRateLimit(byIp.store, "magic:start:email", email,
                                        StartEmailLimit, RateWindow, now) IN
         IF byEmail.limited THEN respond(RateLimited(byEmail.reset), byEmail.store)
         ELSE
           \E code \in generateNumericCode(CodeLength) :
             /\ kv' = byEmail.store
             /\ inflight' = inflight
                              \cup {PendingStart(reqs + 1, email, code, now, ip, "insert")}
             /\ UNCHANGED hist

\* the INSERT OR REPLACE of the request is applied (auth.ts:73-83)
StartInsert(p) ==
  /\ p \in inflight
  /\ p.stage = "insert"
  /\ inflight' = (inflight \ {p}) \cup {[p EXCEPT !.stage = "send"]}
  /\ links' = insertOrReplace(links, Row(p.email, hashString(hashInput(p.code, p.email)),
                                         p.at + MagicTtl, p.at, p.ip))
  /\ issued' = [issued EXCEPT ![p.email] =
                  [code |-> p.code, at |-> p.at, tokens |-> 0, misses |-> 0,
                   prev |-> issued[p.email].code, prevAt |-> issued[p.email].at,
                   n |-> issued[p.email].n + 1]]
  /\ UNCHANGED <<now, ticks, reqs, kv, outbox, hist, tok, ent, lim, calc, log, keyring>>

\* the mail is handed over and the request answers {ok: true} (auth.ts:85-99)
StartSend(p) ==
  /\ p \in inflight
  /\ p.stage = "send"
  /\ inflight' = inflight \ {p}
  /\ outbox' = outbox \cup {[to |-> p.email, code |-> p.code]}
  /\ log' = startPersistedLog(p.email) \cup sendLog(p.email, TRUE)
  /\ hist' = push(hist, Entry("start", p.email, p.code, now, OkTrue, links, issued[p.email]))
  /\ UNCHANGED <<now, ticks, reqs, links, kv, issued, tok, ent, lim, calc, keyring>>

\* overlapping starts for one email; a code is submitted once the starts under
\* way have completed
NextStarts ==
  \/ Tick
  \/ \E ipHeader \in IpHeaders : StartBegin(EmailA, ipHeader)
  \/ \E p \in inflight : StartInsert(p)
  \/ \E p \in inflight : StartSend(p)
  \/ /\ inflight = {}
     /\ \E code \in generateNumericCode(CodeLength), ipHeader \in IpHeaders :
          MagicVerify(EmailA, code, ipHeader, "none")

SpecStarts == Init /\ [][NextStarts]_vars

\* two or more starts for the email have stored a challenge and sent their mail,
\* none is under way, and the challenge stored last is unused and unexpired
StartsCompleted(email) ==
  /\ inflight = {}
  /\ issued[email].n >= 2
  /\ issued[email].tokens = 0
  /\ now < issued[email].at + MagicTtl

\* the last request was a verify that looked up a live challenge of an email
\* whose concurrent starts had all completed
VerifiedAfterStarts ==
  /\ hist # <<>>
  /\ Last.op = "verify"
  /\ Last.email \in Emails
  /\ Last.resp.status \notin {400, 429}
  /\ inflight = {}
  /\ Last.before.n >= 2
  /\ \E row \in Last.pre : row.email = Last.email /\ ~isExpired(row, Last.at)

\* C33: after concurrent /magic/start requests for one email have completed, in
\* any interleaving of their writes and mails, exactly one challenge exists for
\* the email, that of the write applied last, and /magic/verify accepts the code
\* of that write and rejects every other emailed code.
C33_LastWriteWins ==
  /\ \A e \in Emails :
       StartsCompleted(e) =>
         /\ Cardinality(selectByEmail(links, e)) = 1
         /\ \A row \in selectByEmail(links, e) :
              /\ row.code_hash = hashString(hashInput(issued[e].code, e))
              /\ row.expires_at = issued[e].at + MagicTtl
  /\ VerifiedAfterStarts =>
       (Last.resp.token # NoToken <=> Last.code = Last.before.code)

\* C33 witness: two starts overlapped, the one that began first wrote last, both
\* mails went out with different codes, and a verify with the code written
\* first was rejected
C33_EarlierStartWroteLast ==
  /\ VerifiedAfterStarts
  /\ Last.before.at < Last.before.prevAt
  /\ Last.before.code # Last.before.prev
  /\ [to |-> Last.email, code |-> Last.before.code] \in outbox
  /\ [to |-> Last.email, code |-> Last.before.prev] \in outbox
  /\ Last.code = Last.before.prev
  /\ Last.resp = InvalidOrExpired

\* ------------------------- the route variant of src/unnamed/part_009:16-108
InvalidInputVariant == Response(400, FALSE, "invalid_input", NoToken, 0, 0)
InvalidOrExpiredVariant == Response(401, FALSE, "invalid_or_expired", NoToken, 0, 0)

\* c.env.PEPPER as deployed in the variants
Pepper == <<"p", "1">>

\* hashMagicCode(code, email, _env): the third argument is not used
hashMagicCode(code, email, env) == hashString(hashInput(code, normalizeEmail(email)))

\* now > rec.expires_at
isExpiredVariant(rec, t) == t > rec.expires_at

\* POST /magic/start of the variant: any non-empty email is taken
MagicStartVariant(raw, ipHeader, mailOk) ==
  LET email == normalizeEmail(raw)
      ip == ipOf(ipHeader)
      done(resp, store) ==
        /\ kv' = store
        /\ hist' = push(hist, Entry("start", email, <<>>, now, resp, links, NeverIssued))
        /\ UNCHANGED <<links, outbox, issued>>
  IN
  /\ reqs < MaxReqs
  /\ reqs' = reqs + 1
  /\ UNCHANGED <<now, ticks, inflight, tok, ent, lim, calc, log, keyring>>
  /\ IF email = <<>> THEN done(OkTrue, kv)
     ELSE
       LET byIp == assertRateLimit(kv, "magic:start:ip", ip, StartIpLimit, RateWindow, now) IN
       IF byIp.limited THEN done(RateLimited(byIp.reset), byIp.store)
       ELSE
         LET byEmail == assertRateLimit(byIp.store, "magic:start:email", email,
                                        StartEmailLimit, RateWindow, now) IN
         IF byEmail.limited THEN done(RateLimited(byEmail.reset), byEmail.store)
         ELSE
           \E code \in generateNumericCode(CodeLength) :
             LET codeHash == hashMagicCode(code, email, Pepper)
                 exp == now + MagicTtl
             IN
             /\ kv' = byEmail.store
             /\ links' = insertOrReplace(links, Row(email, codeHash, exp, now, ip))
             /\ outbox' = IF mailOk THEN outbox \cup {[to |-> email, code |-> code]}
                          ELSE outbox
             /\ issued' = [issued EXCEPT ![email] =
                             [code |-> code, at |-> now, tokens |-> 0, misses |-> 0,
                              prev |-> issued[email].code, prevAt |-> issued[email].at,
                              n |-> issued[email].n + 1]]
             /\ hist' = push(hist, Entry("start", email, code, now, OkTrue, links,
                                         issued[email]))

\* POST /magic/verify of the variant: no delete on expiry, token signed before
\* the delete is sent
MagicVerifyVariant(raw, rawCode, ipHeader) ==
  LET email == normalizeEmail(raw)
      code == trim(rawCode)
      ip == ipOf(ipHeader)
      before == IF email \in Emails THEN issued[email] ELSE NeverIssued
      done(resp, store, rows, miss) ==
        /\ kv' = store
        /\ links' = rows
        /\ hist' = push(hist, Entry("verify", email, code, now, resp, links, before))
        /\ issued' = IF resp.token # NoToken
                       THEN [issued EXCEPT ![email].tokens = @ + 1]
                     ELSE IF miss THEN [issued EXCEPT ![email].misses = 1]
                     ELSE issued
        /\ UNCHANGED outbox
  IN
  /\ reqs < MaxReqs
  /\ reqs' = reqs + 1
  /\ UNCHANGED <<now, ticks, inflight, tok, ent, lim, calc, log, keyring>>
  /\ IF email = <<>> \/ code = <<>> THEN done(InvalidInputVariant, kv, links, FALSE)
     ELSE
       LET limited == assertRateLimit(kv, "magic:verify:ip", ip, VerifyIpLimit,
                                      RateWindow, now) IN
       IF limited.limited THEN done(RateLimited(limited.reset), limited.store, links, FALSE)
       ELSE
         LET found == selectByEmail(links, email) IN
         IF found = {} THEN done(InvalidOrExpiredVariant, limited.store, links, FALSE)
         ELSE
           \E rec \in found :
             IF isExpiredVariant(rec, now)
               THEN done(InvalidOrExpiredVariant, limited.store, links, FALSE)
             ELSE IF ~constantTimeEqual(hashMagicCode(code, email, Pepper), rec.code_hash)
               THEN done(InvalidOrExpiredVariant, limited.store, links, TRUE)
             ELSE done(TokenResponse(signIdentityToken(email, IdentityPrivateKey, now)),
                       limited.store, deleteByEmail(links, email), FALSE)

\* POST /magic/verify of part_009:219-293: as the variant above, with the
\* database steps inside try/catch and a failed DELETE logged as non-fatal
MagicVerifyCleanup(raw, rawCode, ipHeader, fault) ==
  LET email == normalizeEmail(raw)
      code == trim(rawCode)
      ip == ipOf(ipHeader)
      before == IF email \in Emails THEN issued[email] ELSE NeverIssued
      done(resp, store, rows, miss, failed) ==
        /\ kv' = store
        /\ links' = rows
        /\ hist' = push(hist, Failed(Entry("verify", email, code, now, resp, links,
                                            before), failed))
        /\ issued' = IF resp.token # NoToken
                       THEN [issued EXCEPT ![email].tokens = @ + 1]
                     ELSE IF miss THEN [issued EXCEPT ![email].misses = 1]
                     ELSE issued
        /\ UNCHANGED outbox
  IN
  /\ reqs < MaxReqs
  /\ reqs' = reqs + 1
  /\ UNCHANGED <<now, ticks, inflight, tok, ent, lim, calc, log, keyring>>
  /\ IF email = <<>> \/ code = <<>>
       THEN done(InvalidInputVariant, kv, links, FALSE, "none")
     ELSE IF fault = "kv" THEN done(InternalServerError, kv, links, FALSE, fault)
     ELSE
       LET tooManyVerify == assertRateLimit(kv, "magic:verify:ip", ip, VerifyIpLimit,
                                            RateWindow, now) IN
       IF tooManyVerify.limited
         THEN done(RateLimited(tooManyVerify.reset), tooManyVerify.store, links, FALSE,
                   "none")
       ELSE IF fault = "db_select"
         THEN done(InvalidOrExpiredVariant, tooManyVerify.store, links, FALSE, fault)
       ELSE
         LET found == selectByEmail(links, email) IN
         IF found = {}
           THEN done(InvalidOrExpiredVariant, tooManyVerify.store, links, FALSE, "none")
         ELSE
           \E record \in found :
             IF isExpiredVariant(record, now)
               THEN done(InvalidOrExpiredVariant, tooManyVerify.store, links, FALSE, "none")
             ELSE IF ~constantTimeEqual(hashMagicCode(code, email, Pepper), record.code_hash)
               THEN done(InvalidOrExpiredVariant, tooManyVerify.store, links, TRUE, "none")
             ELSE IF fault = "db_delete"
               THEN done(TokenResponse(signIdentityToken(email, IdentityPrivateKey, now)),
                         tooManyVerify.store, links, FALSE, fault)
             ELSE done(TokenResponse(signIdentityToken(email, IdentityPrivateKey, now)),
                       tooManyVerify.store, deleteByEmail(links, email), FALSE, "none")

\* the routes of part_009:126-293 while store and mail operations may fail; its
\* /magic/start (part_009:126-217) differs from the one of auth.ts only in
\* calling normalizeEmail and hashMagicCode, which give the same email and hash
NextFaultsCleanup ==
  \/ Tick
  \/ \E ipHeader \in IpHeaders, fault \in StartFaults : MagicStart(EmailA, ipHeader, fault)
  \/ \E code \in SubmittedCodes, ipHeader \in IpHeaders, fault \in VerifyFaults :
       MagicVerifyCleanup(EmailAUpper, code, ipHeader, fault)

SpecFaultsCleanup == Init /\ [][NextFaultsCleanup]_vars

\* C22: a /magic/verify during which a store operation failed (the limiter's
\* KV, the SELECT or the DELETE) returns no identity token.
C22_StoreFailureGivesNoToken ==
  (hist # <<>> /\ Last.op = "verify" /\ Last.fault # "none") =>
    Last.resp.token = NoToken

\* C22 witness: the DELETE of a verify with the correct code failed
C22_DeleteFailedOnCorrectCode ==
  /\ hist # <<>>
  /\ Last.op = "verify"
  /\ Last.fault = "db_delete"
  /\ Last.code = Last.before.code
  /\ Last.at < Last.before.at + MagicTtl

\* the variant is given well-formed emails and the empty one
VariantEmails == (RawEmails \ {EmailBad}) \cup {<<>>}

NextVariant ==
  \/ Tick
  \/ \E raw \in VariantEmails, ipHeader \in IpHeaders :
       MagicStartVariant(raw, ipHeader, TRUE)
  \/ \E raw \in VariantEmails, code \in SubmittedCodes, ipHeader \in IpHeaders :
       MagicVerifyVariant(raw, code, ipHeader)

SpecVariant == Init /\ [][NextVariant]_vars

\* the last request was a verify carrying the code of the latest issuance for
\* its email, handled at or after that issuance's expires_at
CorrectCodeAtOrAfterExpiry ==
  /\ hist # <<>>
  /\ Last.op = "verify"
  /\ Last.email \in Emails
  /\ Last.before.n > 0
  /\ Last.code = Last.before.code
  /\ Last.at >= Last.before.at + MagicTtl

\* C3: a verify with the correct code at any time now >= expires_at mints no
\* token, the boundary now = expires_at included, consumed or not.
C3_ExpiredCodeRejected ==
  CorrectCodeAtOrAfterExpiry => Last.resp.token = NoToken

\* the correct, never consumed code was presented exactly at expires_at
C3_AtBoundary ==
  /\ CorrectCodeAtOrAfterExpiry
  /\ Last.at = Last.before.at + MagicTtl
  /\ Last.before.tokens = 0

\* the last request was a verify that, with no operation failing, looked up a
\* challenge whose expires_at had been reached
FoundExpired ==
  /\ hist # <<>>
  /\ Last.op = "verify"
  /\ Last.fault = "none"
  /\ Last.resp.status \notin {400, 429}
  /\ \E row \in Last.pre : row.email = Last.email /\ row.expires_at <= Last.at

\* C36: when /magic/verify finds a challenge whose expires_at <= now, no record
\* for the email is left by the time the request returns.
C36_ExpiredDeletedOnRead ==
  FoundExpired => selectByEmail(links, Last.email) = {}

\* C36 witness: a verify found a challenge after its expiry and answered
\* invalid_or_expired
C36_FoundAfterExpiry ==
  /\ FoundExpired
  /\ Last.resp.token = NoToken
  /\ \E row \in Last.pre : row.email = Last.email /\ row.expires_at < Last.at

\* two spellings of an email that differ only in letter case or surrounding
\* whitespace
SameEmail(a, b) == toLowerCase(trim(a)) = toLowerCase(trim(b))

\* the challenge issued for the email was live, unused and unexpired when the
\* last request ran, and the request carried its code
CarriedCodeOf(email) ==
  LET before == IF email = Last.email THEN Last.before ELSE issued[email] IN
  /\ before.n > 0
  /\ before.tokens = 0
  /\ Last.at < before.at + MagicTtl
  /\ Last.code = before.code

\* C37: issuance and verification agree on email normalization: the code of a
\* challenge issued for e is accepted with any spelling of e that differs in
\* letter case or surrounding whitespace, and a token is returned only for a
\* spelling of an email whose own challenge carries the code.
C37_SameNormalizationBothSides ==
  (hist # <<>> /\ Last.op = "verify" /\ Last.resp.status # 429) =>
    /\ \A e \in Emails :
         (SameEmail(Last.raw, e) /\ CarriedCodeOf(e)) =>
           /\ Last.resp.token # NoToken
           /\ verifyIdentityToken(Last.resp.token, IdentityPublicKey, Last.at) = Subject(e)
    /\ Last.resp.token # NoToken =>
         \E e \in Emails : SameEmail(Last.raw, e) /\ CarriedCodeOf(e)

\* C37 witness: the code of a live challenge was submitted with the email in
\* upper case or padded, and a token was returned
C37_AcceptedInAnotherSpelling ==
  /\ hist # <<>>
  /\ Last.op = "verify"
  /\ Last.raw \in {EmailAUpper, EmailAPadded}
  /\ CarriedCodeOf(EmailA)
  /\ Last.resp.token # NoToken

\* the code of the challenge of one email was submitted for another email that
\* has no challenge, and was rejected
C37_RejectedForAnotherEmail ==
  /\ hist # <<>>
  /\ Last.op = "verify"
  /\ Last.raw = EmailB
  /\ issued[EmailA].n > 0
  /\ Last.code = issued[EmailA].code
  /\ Last.before.n = 0
  /\ Last.resp = InvalidOrExpired

\* ------------------------------------------- identity tokens on their own
\* obj with field f set to value
SetField(obj, f, value) ==
  [x \in (DOMAIN obj) \cup {f} |-> IF x = f THEN value ELSE obj[x]]

\* obj without field f
DropField(obj, f) == [x \in (DOMAIN obj) \ {f} |-> obj[x]]

\* emails handed to the signer
SignEmails == {EmailA, EmailAUpper, EmailAPadded, EmailB}

\* claim sets other than the signer's own that a holder of a private key may sign
OtherClaims(t) ==
  LET base == identityPayload(EmailA, t) IN
  {DropField(base, "exp"),
   SetField(base, "exp", Num(t - 1)),
   SetField(base, "aud", Str(<<"bus-entitlement">>)),
   SetField(base, "purpose", Str(<<"entitlement">>)),
   SetField(base, "v", Num(2)),
   SetField(base, "sub", Str(<<>>)),
   DropField(base, "sub")}

\* another spelling of the same segment: it decodes to the same bytes
respell(seg) == [seg EXCEPT !.form = 1 - @]

Alterations ==
  {"sub", "exp", "respell", "claim_garbage", "claim_null", "claim_notb64",
   "header", "sig_notb64", "sig_respell", "drop_segment", "extra_segment"}

\* the claim object of a token whose claim segment is an encoded object
claimsOf(token) == base64urlDecode(token[2]).obj

\* what an attacker sends after altering a signed token
alter(token, kind) ==
  CASE kind = "sub" ->
         [token EXCEPT ![2] = base64urlEncode(jsonStringify(
            SetField(claimsOf(token), "sub", Str(<<"e", "@", "v", ".", "l">>))))]
    [] kind = "exp" ->
         [token EXCEPT ![2] = base64urlEncode(jsonStringify(
            SetField(claimsOf(token), "exp",
                     Num(Field(claimsOf(token), "exp").n + IdentityTtl))))]
    [] kind = "respell" -> [token EXCEPT ![2] = respell(@)]
    [] kind = "claim_garbage" -> [token EXCEPT ![2] = base64urlEncode(JsonGarbage)]
    [] kind = "claim_null" -> [token EXCEPT ![2] = base64urlEncode(JsonNull)]
    [] kind = "claim_notb64" -> [token EXCEPT ![2] = NotBase64]
    [] kind = "header" ->
         [token EXCEPT ![1] = base64urlEncode(jsonStringify(
            SetField(JwtHeader, "alg", Str(<<"none">>))))]
    [] kind = "sig_notb64" -> [token EXCEPT ![3] = NotBase64]
    [] kind = "sig_respell" -> [token EXCEPT ![3] = respell(@)]
    [] kind = "drop_segment" -> SubSeq(token, 1, 2)
    [] kind = "extra_segment" -> Append(token, token[3])

UnderTest(how, email, pair, token) ==
  [phase |-> "signed", how |-> how, email |-> email, signKey |-> pair,
   signedAt |-> now, orig |-> token, token |-> token, altered |-> "none",
   verifyKey |-> pair, verifiedAt |-> 0, result |-> Rejected]

\* time passes between signing and verification: one second, or one second less
\* than the identity-token lifetime
TokenTick ==
  /\ ticks < MaxTicks
  /\ ticks' = ticks + 1
  /\ \E step \in {1, IdentityTtl - 1} : now' = now + step
  /\ UNCHANGED <<reqs, links, kv, outbox, issued, hist, inflight, tok, ent, lim, calc, log,
                 keyring>>

\* signIdentityToken({email}, privateKeyPem)
SignIdentity(email, pair) ==
  /\ tok.phase = "none"
  /\ tok' = UnderTest("signIdentityToken", email, pair,
                      signIdentityToken(email, PrivateKey(pair), now))
  /\ UNCHANGED <<now, ticks, reqs, links, kv, outbox, issued, hist, inflight, ent, lim, calc,
                 log, keyring>>

\* signIdentityToken({email}, privateKeyPem), earlier definition
SignIdentityV1(email, pair) ==
  /\ tok.phase = "none"
  /\ tok' = UnderTest("signIdentityTokenV1", email, pair,
                      signIdentityTokenV1(email, PrivateKey(pair), now))
  /\ UNCHANGED <<now, ticks, reqs, links, kv, outbox, issued, hist, inflight, ent, lim, calc,
                 log, keyring>>

\* the signing steps applied to another claim set by a holder of the private key
SignOther(claims, pair) ==
  /\ tok.phase = "none"
  /\ tok' = UnderTest("other", EmailA, pair, signJwt(claims, PrivateKey(pair)))
  /\ UNCHANGED <<now, ticks, reqs, links, kv, outbox, issued, hist, inflight, ent, lim, calc,
                 log, keyring>>

\* the token is altered on its way back to the verifier
AlterToken(kind) ==
  /\ tok.phase = "signed"
  /\ tok' = [tok EXCEPT !.phase = "altered", !.altered = kind,
                        !.token = alter(tok.token, kind)]
  /\ UNCHANGED <<now, ticks, reqs, links, kv, outbox, issued, hist, inflight, ent, lim, calc,
                 log, keyring>>

\* verifyIdentityToken(token, publicKeyPem)
VerifyToken(pair) ==
  /\ tok.phase \in {"signed", "altered"}
  /\ tok' = [tok EXCEPT !.phase = "verified", !.verifyKey = pair, !.verifiedAt = now,
                        !.result = verifyIdentityToken(tok.token, PublicKey(pair), now)]
  /\ UNCHANGED <<now, ticks, reqs, links, kv, outbox, issued, hist, inflight, ent, lim, calc,
                 log, keyring>>

NextToken ==
  \/ TokenTick
  \/ \E email \in SignEmails, pair \in KeyPairs : SignIdentity(email, pair)
  \/ \E email \in SignEmails, pair \in KeyPairs : SignIdentityV1(email, pair)
  \/ \E claims \in OtherClaims(now), pair \in KeyPairs : SignOther(claims, pair)
  \/ \E kind \in Alterations : AlterToken(kind)
  \/ \E pair \in KeyPairs : VerifyToken(pair)

SpecToken == Init /\ [][NextToken]_vars

\* a token from signIdentityToken, unaltered, was verified with the matching
\* public key at a time t with iat <= t <= exp
RoundTrip ==
  /\ tok.phase = "verified"
  /\ tok.how \in {"signIdentityToken", "signIdentityTokenV1"}
  /\ tok.altered = "none"
  /\ tok.verifyKey = tok.signKey
  /\ tok.signedAt <= tok.verifiedAt
  /\ tok.verifiedAt <= tok.signedAt + IdentityTtl

\* C6: for every email e and every time t with iat <= t <= exp, verifying the
\* token signIdentityToken made for e with the matching public key returns the
\* normalized subject of e, never null.
C6_SignVerifyRoundTrip ==
  RoundTrip => tok.result = Subject(normalizeEmail(tok.email))

\* a token of the earlier signIdentityToken for an already normalized email was
\* verified within its lifetime with the matching key
C6_EarlierDefinitionVerified ==
  /\ RoundTrip
  /\ tok.how = "signIdentityTokenV1"
  /\ tok.email = normalizeEmail(tok.email)

\* a token from signIdentityToken, unaltered, was verified with the matching
\* public key, at any time
VerifiedOwnToken ==
  /\ tok.phase = "verified"
  /\ tok.how = "signIdentityToken"
  /\ tok.altered = "none"
  /\ tok.verifyKey = tok.signKey

\* C20: a token from signIdentityToken has iat = the time it was signed and
\* exp = iat + 604800; verified unaltered with the matching key it is accepted
\* at every time up to and including exp and rejected at every time after exp.
C20_SevenDayLifetime ==
  /\ (tok.phase # "none" /\ tok.how = "signIdentityToken") =>
       /\ Field(claimsOf(tok.orig), "iat") = Num(tok.signedAt)
       /\ Field(claimsOf(tok.orig), "exp") = Num(tok.signedAt + 604800)
  /\ VerifiedOwnToken =>
       IF tok.verifiedAt <= tok.signedAt + 604800
         THEN tok.result = Subject(toLowerCase(tok.email))
         ELSE tok.result = Rejected

\* C20 witness: one token was accepted in the very second of its exp
C20_AcceptedAtExp ==
  /\ VerifiedOwnToken
  /\ tok.verifiedAt = tok.signedAt + 604800
  /\ tok.result.kind = "subject"

\* the last verification was of a token whose claim segment was changed while
\* its header and signature segments were kept
ClaimSegmentChanged ==
  /\ tok.phase = "verified"
  /\ Len(tok.token) = 3
  /\ tok.token[1] = tok.orig[1]
  /\ tok.token[2] # tok.orig[2]
  /\ tok.token[3] = tok.orig[3]

\* C7: a token whose claim segment was changed in any way, header and signature
\* segments kept, is never accepted: verifyIdentityToken returns no subject
\* for it, whichever key pair and time, because the signature is checked over
\* the segments as received.
C7_ClaimTamperRejected ==
  ClaimSegmentChanged => tok.result.kind # "subject"

\* C7 witness: the exp claim of a token of signIdentityToken was moved later,
\* every claim check passes, the matching key is used, and the token is rejected
C7_Witness ==
  /\ ClaimSegmentChanged
  /\ tok.how = "signIdentityToken"
  /\ tok.altered = "exp"
  /\ tok.verifyKey = tok.signKey
  /\ claimsAcceptable(claimsOf(tok.token), tok.verifiedAt)
  /\ tok.result = Rejected

\* C8: a token signed with the private key of one key pair is rejected when
\* verified with the public key of another pair, for every claim set and time.
C8_OtherKeyPairRejected ==
  (tok.phase = "verified" /\ tok.verifyKey # tok.signKey) =>
    tok.result.kind # "subject"

\* C8 witness: an unaltered token that the matching public key accepts at this
\* time was rejected by the public key of the other pair
C8_Witness ==
  /\ tok.phase = "verified"
  /\ tok.verifyKey # tok.signKey
  /\ tok.altered = "none"
  /\ verifyIdentityToken(tok.token, PublicKey(tok.signKey), tok.verifiedAt).kind = "subject"
  /\ tok.result = Rejected

\* the checks the verifier is to make, stated on the token itself
SegmentsOk(token) == Len(token) = 3

ClaimIsJson(token) ==
  /\ token[2].kind = "b64"
  /\ token[2].data.kind \in {"object", "null"}

\* field f of the decoded claim; the JSON text null has no fields
ClaimField(token, f) ==
  IF token[2].data.kind = "object" THEN Field(token[2].data.obj, f) ELSE Undefined

SubPresent(token) ==
  ClaimField(token, "sub").t = "string" /\ ClaimField(token, "sub").s # <<>>

TagsOk(token) ==
  /\ ClaimField(token, "aud") = Str(<<"bus-auth">>)
  /\ ClaimField(token, "purpose") = Str(<<"identity">>)
  /\ ClaimField(token, "v") = Num(1)

ExpOk(token, t) ==
  /\ ClaimField(token, "exp").t = "number"
  /\ ClaimField(token, "exp").n # 0
  /\ ClaimField(token, "exp").n >= t

SignatureOk(token, publicKey) ==
  /\ token[3].kind = "b64"
  /\ token[3].data.kind = "sig"
  /\ token[3].data.signer = publicKey.pair
  /\ token[3].data.msg = <<token[1], token[2]>>

AllChecksPass(token, publicKey, t) ==
  /\ SegmentsOk(token)
  /\ ClaimIsJson(token)
  /\ SubPresent(token)
  /\ TagsOk(token)
  /\ ExpOk(token, t)
  /\ SignatureOk(token, publicKey)

\* C9: verifyIdentityToken returns a subject only if the token has three
\* segments, its claim segment decodes to JSON, sub is non-empty, aud, purpose
\* and v have their values, exp is present and not past, and the signature
\* verifies; when any of these fails it returns null.
C9_ChecksDecideResult ==
  tok.phase = "verified" =>
    LET pass == AllChecksPass(tok.token, PublicKey(tok.verifyKey), tok.verifiedAt) IN
    /\ tok.result.kind = "subject" => pass
    /\ ~pass => tok.result = Rejected

\* a token whose claims are acceptable but whose signature segment is no
\* base64 was verified
C9_MalformedSignatureVerified ==
  /\ tok.phase = "verified"
  /\ tok.altered = "sig_notb64"
  /\ claimsAcceptable(claimsOf(tok.token), tok.verifiedAt)
  /\ tok.result = Thrown

\* the half of C9 that holds: a subject is returned only when every check passes
SubjectOnlyIfAllChecksPass ==
  (tok.phase = "verified" /\ tok.result.kind = "subject") =>
    AllChecksPass(tok.token, PublicKey(tok.verifyKey), tok.verifiedAt)

\* a token of signIdentityToken, as signed
MintedBySignIdentityToken ==
  /\ tok.phase \in {"signed", "altered", "verified"}
  /\ tok.how = "signIdentityToken"

\* C30: the sub claim of every minted identity token is the trimmed, lower-cased
\* form of the email given to signIdentityToken, and the subject verification
\* returns for the token is in that form, for every input email.
C30_SubIsNormalizedEmail ==
  MintedBySignIdentityToken =>
    /\ Field(claimsOf(tok.orig), "sub") = Str(normalizeEmail(tok.email))
    /\ (tok.phase = "verified" /\ tok.altered = "none" /\ tok.result.kind = "subject") =>
         tok.result.sub = normalizeEmail(tok.email)

\* C30, the part that holds: the sub claim is the lower-cased email, and an
\* unaltered token verifies to its sub claim as signed
C30_SubIsLowerCasedEmail ==
  MintedBySignIdentityToken =>
    /\ Field(claimsOf(tok.orig), "sub") = Str(toLowerCase(tok.email))
    /\ (tok.phase = "verified" /\ tok.altered = "none" /\ tok.result.kind = "subject") =>
         tok.result.sub = toLowerCase(tok.email)

\* C30 witness: an email with surrounding whitespace was signed and the token
\* verified to a subject
C30_PaddedEmailVerified ==
  /\ MintedBySignIdentityToken
  /\ tok.email = EmailAPadded
  /\ tok.phase = "verified"
  /\ tok.altered = "none"
  /\ tok.result.kind = "subject"

\* the token has three segments and a claim segment the verifier accepts at t
ClaimSegmentAcceptable(token, t) ==
  /\ SegmentsOk(token)
  /\ token[2].kind = "b64"
  /\ token[2].data.kind = "object"
  /\ SubPresent(token)
  /\ TagsOk(token)
  /\ ExpOk(token, t)

\* C21: verifying a three-segment token whose claim segment is acceptable and
\* whose signature segment is no valid base64url returns null; it never throws.
C21_MalformedSignatureRejected ==
  (tok.phase = "verified" /\ ClaimSegmentAcceptable(tok.token, tok.verifiedAt)
     /\ base64urlDecodeThrows(tok.token[3])) =>
    tok.result = Rejected

\* C21 witness: such a token was handed to the verifier
C21_SignatureNotBase64 ==
  /\ tok.phase = "verified"
  /\ ClaimSegmentAcceptable(tok.token, tok.verifiedAt)
  /\ base64urlDecodeThrows(tok.token[3])
  /\ tok.how = "signIdentityToken"

\* ------------------------------------------------ the entitlement endpoint
\* index.ts: defaults of ENTITLEMENT_GRACE_SECONDS and ENTITLEMENT_MAX_TTL_SECONDS,
\* and the lifetime of a token without a known period end
GraceSeconds == 604800
MaxTtlSeconds == 2592000
ShortTtl == 600

\* part_008
SEVEN_DAYS_SECONDS == 604800
ENTITLEMENT_MAX_TTL_SECONDS == 86400
MIN_TTL_IF_ACTIVE_ABOUT_TO_EXPIRE == 600
INACTIVE_TTL_SECONDS == 300
EntMintIpLimit == 10
EntMintEmailLimit == 5
EntMintWindow == 60

\* how far ahead of the webhook a subscription period ends
PeriodAhead == 1000

VALID_STATUSES == {<<"active">>, <<"trialing">>}

PricePro == <<"price_pro">>
PriceOld == <<"price_old">>

\* value.split(sep): the pieces between the separators
RECURSIVE split(_, _)
split(value, sep) ==
  IF \A i \in DOMAIN value : value[i] # sep THEN <<value>>
  ELSE LET i == CHOOSE k \in DOMAIN value :
                  value[k] = sep /\ \A j \in 1..(k - 1) : value[j] # sep
       IN  <<SubSeq(value, 1, i - 1)>> \o split(SubSeq(value, i + 1, Len(value)), sep)

\* ELIGIBLE_PRICE_IDS as deployed: " price_pro,", or left unset
PriceIdsConfigured == Str(<<" ">> \o PricePro \o <<",">>)
PriceIdSettings == {Undefined, PriceIdsConfigured}

\* parseEligiblePriceIds(env): the ids of (env.ELIGIBLE_PRICE_IDS ?? ""),
\* comma-separated, trimmed, empty ones dropped
parseEligiblePriceIds(value) ==
  LET raw == IF value.t \in {"null", "undefined"} THEN <<>> ELSE value.s
      ids == split(raw, ",")
  IN  {trim(ids[i]) : i \in DOMAIN ids} \ {<<>>}

NoRow == [present |-> FALSE, status |-> Null, price_id |-> Null,
          current_period_end |-> Null, last_token_mint |-> Null]

EntitlementRow(status, priceId, currentPeriodEnd) ==
  [present |-> TRUE, status |-> status, price_id |-> priceId,
   current_period_end |-> currentPeriodEnd, last_token_mint |-> Null]

\* value ?? fallback
OrElse(value, fallback) == IF value.t \in {"null", "undefined"} THEN fallback ELSE value

\* the Authorization header: absent, or "Bearer " followed by a token
NoAuthorization == [scheme |-> "none", token |-> NoToken]
Bearer(token) == [scheme |-> "Bearer", token |-> token]

\* tokens a caller may present at time t: good ones for two subjects, one signed
\* with another key, one past its lifetime, one with an altered subject, one
\* whose signature segment is no base64
PresentedTokens(t) ==
  LET good == signIdentityToken(EmailA, IdentityPrivateKey, t) IN
  {good,
   signIdentityToken(EmailB, IdentityPrivateKey, t),
   signIdentityToken(EmailA, PrivateKey("entitlement"), t),
   signIdentityToken(EmailA, IdentityPrivateKey, t - IdentityTtl - 1),
   alter(good, "sub"),
   alter(good, "sig_notb64")}

AuthorizationHeaders(t) == {NoAuthorization} \cup {Bearer(k) : k \in PresentedTokens(t)}

AdminKey == Str(<<"admin-key">>)
AdminKeyHeaders == {Undefined, AdminKey, Str(<<"guess">>)}

\* the email field of the request body: absent, or a string
BodyEmails == {Undefined, Str(EmailA), Str(EmailAUpper), Str(EmailBad)}

EntResponse(status, ok, error, token) ==
  [status |-> status, ok |-> ok, error |-> error, token |-> token]

\* verifyIdentityJwt(token, publicKeyPem) of part_008, run at time t
verifyIdentityJwt(token, publicKey, t) ==
  IF Len(token) # 3 THEN Rejected
  ELSE IF base64urlDecodeThrows(token[2]) THEN Rejected
  ELSE IF jsonParseThrows(base64urlDecode(token[2])) THEN Rejected
  ELSE IF base64urlDecode(token[2]).kind = "null" THEN Thrown
  ELSE
    LET payload == base64urlDecode(token[2]).obj IN
    IF \/ ~StrictEq(Field(payload, "aud"), Str(<<"bus-auth">>))
       \/ ~StrictEq(Field(payload, "purpose"), Str(<<"identity">>))
       \/ ~StrictEq(Field(payload, "v"), Num(1))
      THEN Rejected
    ELSE IF Field(payload, "sub").t # "string" \/ Field(payload, "iat").t # "number"
      THEN Rejected
    ELSE IF t - Field(payload, "iat").n > SEVEN_DAYS_SECONDS THEN Rejected
    ELSE IF base64urlDecodeThrows(token[3]) THEN Thrown
    ELSE IF ~signatureValid(token, publicKey) THEN Rejected
    ELSE Subject(toLowerCase(Field(payload, "sub").s))

\* calculateEntitlementExp(eligible, currentPeriodEnd, now) of part_008
calculateEntitlementExp(eligible, currentPeriodEnd, t) ==
  IF ~eligible THEN t + INACTIVE_TTL_SECONDS
  ELSE IF ~Falsy(currentPeriodEnd) /\ currentPeriodEnd.n > t
    THEN t + Max(Min(currentPeriodEnd.n - t, ENTITLEMENT_MAX_TTL_SECONDS),
                 MIN_TTL_IF_ACTIVE_ABOUT_TO_EXPIRE)
  ELSE t + ENTITLEMENT_MAX_TTL_SECONDS

\* signEntitlementJwt(payload, privateKeyPem) of part_008
signEntitlementJwt(payload, privateKey) == signJwt(payload, privateKey)

\* the literal first segment "v1" of index.ts entitlement tokens
V1Segment == [kind |-> "literal", data |-> <<"v1">>, form |-> 0]

\* `v1.${payloadB64}.${signature}` of index.ts
signEntitlementV1(payload, privateKey) ==
  LET payloadB64 == base64urlEncode(jsonStringify(payload))
      signingInput == signingInputOf(V1Segment, payloadB64)
  IN  <<V1Segment, payloadB64, base64urlEncode(cryptoSign(privateKey, signingInput))>>

\* checkRateLimit(kv, key, limit, windowSeconds) at time t: the store after the
\* call and whether the call is allowed
checkRateLimit(store, key, limit, windowSeconds, t) ==
  LET live == store[key].ttlEnd > t
      count == IF live THEN store[key].count ELSE 0
      put(n) == [store EXCEPT ![key] = [count |-> n, ttlEnd |-> t + windowSeconds]]
  IN  IF ~live THEN [store |-> put(1), allowed |-> TRUE]
      ELSE IF count >= limit THEN [store |-> store, allowed |-> FALSE]
      ELSE [store |-> put(count + 1), allowed |-> TRUE]

UnknownIp == <<"unknown">>

\* cfIp || forwardedFor || (c.req.raw.cf?.colo ?? "unknown")
entIpOf(header) == IF header = <<>> THEN UnknownIp ELSE header

EntBuckets ==
  {<<"entmint:ip:">> \o entIpOf(h) : h \in IpHeaders}
    \cup {<<"entmint:email:">> \o e : e \in Emails}

\* ENVIRONMENT and ADMIN_API_KEY as deployed: the key may be left unset
Environments == {"prod", "dev"}
AdminKeySettings == {Undefined, AdminKey}

NoRequest == [handler |-> "none"]

EntRequest(handler, auth, adminHeader, bodyEmail, t, resp) ==
  [handler |-> handler, auth |-> auth, adminHeader |-> adminHeader,
   bodyEmail |-> bodyEmail, at |-> t, resp |-> resp]

InitEntitlement ==
  /\ now = 0
  /\ ticks = 0
  /\ reqs = 0
  /\ links = {}
  /\ kv = [b \in Buckets |-> NoEntry]
  /\ outbox = {}
  /\ issued = [e \in Emails |-> NeverIssued]
  /\ hist = <<>>
  /\ inflight = {}
  /\ tok = NoTokenUnderTest
  /\ calc = NoHashes
  /\ log = {}
  /\ keyring = NoKeys
  /\ lim = NoLimiterState
  /\ \E environment \in Environments, adminKey \in AdminKeySettings :
       ent = [phase |-> "serving", ENVIRONMENT |-> environment,
              ADMIN_API_KEY |-> adminKey, ELIGIBLE_PRICE_IDS |-> PriceIdsConfigured,
              table |-> [e \in Emails |-> NoRow],
              rl |-> [b \in EntBuckets |-> [count |-> 0, ttlEnd |-> 0]],
              last |-> NoRequest]

\* upsertEntitlement(env, data), called by the Stripe webhook
UpsertEntitlement(email, status, priceId, currentPeriodEnd) ==
  /\ reqs < MaxReqs
  /\ reqs' = reqs + 1
  /\ ent' = [ent EXCEPT !.table[email] =
               [EntitlementRow(status, priceId, currentPeriodEnd)
                  EXCEPT !.last_token_mint = ent.table[email].last_token_mint]]
  /\ UNCHANGED <<now, ticks, links, kv, outbox, issued, hist, inflight, tok, lim, calc, log,
                 keyring>>

\* POST /entitlement/token of index.ts
EntitlementToken(auth) ==
  LET respond(resp) ==
        ent' = [ent EXCEPT !.last = EntRequest("index", auth, Undefined, Undefined,
                                                now, resp)]
      verified == verifyIdentityToken(auth.token, IdentityPublicKey, now)
  IN
  /\ reqs < MaxReqs
  /\ reqs' = reqs + 1
  /\ UNCHANGED <<now, ticks, links, kv, outbox, issued, hist, inflight, tok, lim, calc, log,
                 keyring>>
  /\ IF auth.scheme # "Bearer" THEN respond(EntResponse(401, FALSE, "unauthorized", NoToken))
     ELSE IF verified.kind = "throw"
       THEN respond(EntResponse(500, FALSE, "internal_server_error", NoToken))
     ELSE IF verified.kind # "subject" \/ verified.sub = <<>>
       THEN respond(EntResponse(401, FALSE, "unauthorized", NoToken))
     ELSE
       LET email == verified.sub
           row == IF email \in Emails THEN ent.table[email] ELSE NoRow
           eligible == /\ row.present
                       /\ OrElse(row.status, Str(<<>>)).s \in VALID_STATUSES
                       /\ OrElse(row.price_id, Str(<<>>)).s
                            \in parseEligiblePriceIds(ent.ELIGIBLE_PRICE_IDS)
           exp == IF eligible /\ ~Falsy(row.current_period_end)
                    THEN Min(now + MaxTtlSeconds, row.current_period_end.n + GraceSeconds)
                    ELSE now + ShortTtl
           payload == [v |-> Num(1), sub |-> Str(email), iat |-> Num(now),
                       exp |-> Num(exp), eligible |-> Bool(eligible),
                       price_id |-> row.price_id, status |-> row.status,
                       current_period_end |-> row.current_period_end]
       IN  respond(EntResponse(200, TRUE, "",
                               signEntitlementV1(payload, PrivateKey("entitlement"))))

\* entitlementTokenHandler of part_008
EntitlementTokenHandler(auth, adminKeyHeader, bodyEmail, ipHeader) ==
  LET respond(resp, store, table) ==
        ent' = [ent EXCEPT !.last = EntRequest("route", auth, adminKeyHeader, bodyEmail,
                                                now, resp),
                           !.rl = store, !.table = table]
      invalidIdentity == EntResponse(200, FALSE, "invalid_identity", NoToken)
      notEntitled == EntResponse(200, FALSE, "not_entitled", NoToken)
      adminOverride == ent.ENVIRONMENT # "prod" /\ adminKeyHeader = ent.ADMIN_API_KEY
      bodyText == IF bodyEmail.t = "string" THEN normalizeEmail(bodyEmail.s) ELSE <<>>
      verified == verifyIdentityJwt(auth.token, IdentityPublicKey, now)
      mint(email) ==
        LET ip == entIpOf(ipHeader)
            byIp == checkRateLimit(ent.rl, <<"entmint:ip:">> \o ip, EntMintIpLimit,
                                   EntMintWindow, now)
            byEmail == checkRateLimit(byIp.store, <<"entmint:email:">> \o email,
                                      EntMintEmailLimit, EntMintWindow, now)
            row == ent.table[email]
            status == OrElse(row.status, Str(<<"none">>))
            currentPeriodEnd == row.current_period_end
            isActiveStatus == status.s \in {<<"active">>, <<"trialing">>}
            isWithinPeriod == IF ~Falsy(currentPeriodEnd) THEN currentPeriodEnd.n > now
                              ELSE TRUE
            eligible == isActiveStatus /\ isWithinPeriod
            exp == calculateEntitlementExp(eligible, currentPeriodEnd, now)
            payload == [v |-> Num(1), sub |-> Str(email), aud |-> Str(<<"bus-auth">>),
                        purpose |-> Str(<<"entitlement">>), iat |-> Num(now),
                        exp |-> Num(exp), eligible |-> Bool(eligible), status |-> status,
                        price_id |-> row.price_id,
                        current_period_end |-> currentPeriodEnd]
        IN
        IF ~byIp.allowed \/ ~byEmail.allowed THEN respond(notEntitled, byEmail.store, ent.table)
        ELSE IF ~eligible THEN respond(notEntitled, byEmail.store, ent.table)
        ELSE respond(EntResponse(200, TRUE, "",
                                 signEntitlementJwt(payload, PrivateKey("entitlement"))),
                     byEmail.store,
                     IF row.present
                       THEN [ent.table EXCEPT ![email].last_token_mint = Num(now)]
                       ELSE ent.table)
  IN
  /\ reqs < MaxReqs
  /\ reqs' = reqs + 1
  /\ UNCHANGED <<now, ticks, links, kv, outbox, issued, hist, inflight, tok, lim, calc, log,
                 keyring>>
  /\ IF adminOverride
       THEN IF bodyText = <<>> \/ ~isValidEmail(bodyText)
              THEN respond(invalidIdentity, ent.rl, ent.table)
              ELSE mint(bodyText)
     ELSE IF auth.scheme # "Bearer" THEN respond(invalidIdentity, ent.rl, ent.table)
     ELSE IF verified.kind = "throw"
       THEN respond(EntResponse(500, FALSE, "internal_server_error", NoToken),
                    ent.rl, ent.table)
     ELSE IF verified.kind # "subject" \/ verified.sub = <<>>
       THEN respond(invalidIdentity, ent.rl, ent.table)
     ELSE mint(verified.sub)

\* what the webhook writes: an active subscription with and without a known
\* period end, one on a price outside the allow-list, a canceled one
WebhookRows ==
  {<<Str(<<"active">>), Str(PricePro), Num(PeriodAhead)>>,
   <<Str(<<"active">>), Str(PricePro), Null>>,
   <<Str(<<"active">>), Str(PriceOld), Num(PeriodAhead)>>,
   <<Str(<<"canceled">>), Str(PricePro), Num(PeriodAhead)>>}

\* requests to the route: each bearer token on its own, each admin key header
\* with each body email and no bearer token, and a good bearer token together
\* with the admin key and a body email
RouteRequests(t) ==
  {<<auth, Undefined, Undefined>> : auth \in AuthorizationHeaders(t)}
    \cup {<<NoAuthorization, k, b>> : k \in AdminKeyHeaders, b \in BodyEmails}
    \cup {<<Bearer(signIdentityToken(EmailB, IdentityPrivateKey, t)), AdminKey,
            Str(EmailAUpper)>>}

NextEntitlement ==
  \/ Tick
  \/ \E email \in Emails, w \in WebhookRows : UpsertEntitlement(email, w[1], w[2], w[3])
  \/ \E auth \in AuthorizationHeaders(now) : EntitlementToken(auth)

SpecEntitlement == InitEntitlement /\ [][NextEntitlement]_vars

NextEntitlementRoute ==
  \/ Tick
  \/ \E email \in Emails, w \in WebhookRows : UpsertEntitlement(email, w[1], w[2], w[3])
  \/ \E r \in RouteRequests(now), ipHeader \in IpHeaders :
       EntitlementTokenHandler(r[1], r[2], r[3], ipHeader)

SpecEntitlementRoute == InitEntitlement /\ [][NextEntitlementRoute]_vars

\* the sub claim of a minted entitlement token
entitlementSubject(token) == Field(claimsOf(token), "sub").s

\* the bearer token of the last request verifies, with either identity verifier,
\* to the subject sub at the time of the request
BearerVerifiesTo(sub) ==
  /\ ent.last.auth.scheme = "Bearer"
  /\ \/ verifyIdentityToken(ent.last.auth.token, IdentityPublicKey, ent.last.at)
          = Subject(sub)
     \/ verifyIdentityJwt(ent.last.auth.token, IdentityPublicKey, ent.last.at)
          = Subject(sub)

\* C10: every token the entitlement-token endpoint returns has as sub the
\* subject of a successful identity-token verification of the bearer token of
\* the same request; a request without a valid identity token gets no token.
C10_TokenOnlyForVerifiedSubject ==
  (ent.phase = "serving" /\ ent.last.handler # "none"
     /\ ent.last.resp.token # NoToken) =>
    BearerVerifiesTo(entitlementSubject(ent.last.resp.token))

\* a request without an Authorization header, carrying only an email in its
\* body, was answered with an entitlement token for that email
C10_TokenWithoutIdentity ==
  /\ ent.phase = "serving"
  /\ ent.last.handler = "route"
  /\ ent.last.auth = NoAuthorization
  /\ ent.last.resp.token # NoToken
  /\ entitlementSubject(ent.last.resp.token) = normalizeEmail(ent.last.bodyEmail.s)

\* --------------------------------- entitlement tokens over subscription states
\* the clock when the service starts: more than the grace period after 0
PeriodsStart == 1000000

\* current_period_end as the webhook left it: unknown, long past (more than the
\* grace period ago), just past, 5 minutes ahead, an hour ahead, more than a
\* day ahead, 50 days ahead
PeriodEnds ==
  {Null, Num(1), Num(PeriodsStart - 100), Num(PeriodsStart + 300),
   Num(PeriodsStart + 3600), Num(PeriodsStart + 100000), Num(PeriodsStart + 4320000)}

SnapshotStatuses == {Str(<<"active">>), Str(<<"trialing">>), Str(<<"canceled">>), Null}
SnapshotPrices == {Str(PricePro), Str(PriceOld), Null}

\* the entitlements row of the subject: none, or any the webhook can have written
Snapshots ==
  {NoRow} \cup {EntitlementRow(status, priceId, currentPeriodEnd) :
                  status \in SnapshotStatuses, priceId \in SnapshotPrices,
                  currentPeriodEnd \in PeriodEnds}

InitPeriods ==
  /\ now = PeriodsStart
  /\ ticks = 0
  /\ reqs = 0
  /\ links = {}
  /\ kv = [b \in Buckets |-> NoEntry]
  /\ outbox = {}
  /\ issued = [e \in Emails |-> NeverIssued]
  /\ hist = <<>>
  /\ inflight = {}
  /\ tok = NoTokenUnderTest
  /\ calc = NoHashes
  /\ log = {}
  /\ keyring = NoKeys
  /\ lim = NoLimiterState
  /\ \E priceIds \in PriceIdSettings, row \in Snapshots :
       ent = [phase |-> "serving", ENVIRONMENT |-> "prod", ADMIN_API_KEY |-> Undefined,
              ELIGIBLE_PRICE_IDS |-> priceIds,
              table |-> [e \in Emails |-> IF e = EmailA THEN row ELSE NoRow],
              rl |-> [b \in EntBuckets |-> [count |-> 0, ttlEnd |-> 0]],
              last |-> NoRequest]

\* the Authorization header of a caller who has just signed in as EmailA
FreshBearer == Bearer(signIdentityToken(EmailA, IdentityPrivateKey, now))

\* POST /entitlement/token of index.ts, asked by a signed-in subject
NextPeriods ==
  \/ Tick
  \/ EntitlementToken(FreshBearer)

SpecPeriods == InitPeriods /\ [][NextPeriods]_vars

\* entitlementTokenHandler of part_008, asked by a signed-in subject
NextPeriodsRoute ==
  \/ Tick
  \/ EntitlementTokenHandler(FreshBearer, Undefined, Undefined, <<>>)

SpecPeriodsRoute == InitPeriods /\ [][NextPeriodsRoute]_vars

\* the last request was a token request of a signed-in subject, and what it got
Asked == ent.phase = "serving" /\ ent.last.handler # "none"
Minted == Asked /\ ent.last.resp.token # NoToken
MintedClaim(name) == Field(claimsOf(ent.last.resp.token), name)
MintedTtl == MintedClaim("exp").n - ent.last.at

\* the subject's row when the token was asked for
Snapshot == ent.table[EmailA]
PeriodEndKnown == Snapshot.current_period_end.t = "number"
PeriodEnd == Snapshot.current_period_end.n

\* the safety floor and the maximum TTL of the handler that served the request
FloorTtl ==
  IF ent.last.handler = "index" THEN ShortTtl ELSE MIN_TTL_IF_ACTIVE_ABOUT_TO_EXPIRE
MaxTtl ==
  IF ent.last.handler = "index" THEN MaxTtlSeconds ELSE ENTITLEMENT_MAX_TTL_SECONDS
InactiveTtl ==
  IF ent.last.handler = "index" THEN ShortTtl ELSE INACTIVE_TTL_SECONDS

\* C14: a token minted as eligible for a subscription whose current_period_end
\* is known and after now has exp - now = clamp(current_period_end - now, floor,
\* maximum TTL).
C14_ExpClampsPeriodEnd ==
  (Minted /\ MintedClaim("eligible") = Bool(TRUE) /\ PeriodEndKnown
     /\ PeriodEnd > ent.last.at) =>
    MintedTtl = Max(Min(PeriodEnd - ent.last.at, MaxTtl), FloorTtl)

\* C14 witness: an eligible token for a period ending in 5 minutes
C14_EligibleEndingSoon ==
  /\ Minted
  /\ MintedClaim("eligible") = Bool(TRUE)
  /\ PeriodEndKnown
  /\ PeriodEnd - ent.last.at = 300

\* the subject has a row whose status is active or trialing
ActiveOrTrialing ==
  Snapshot.present /\ Snapshot.status \in {Str(<<"active">>), Str(<<"trialing">>)}

\* C15: a token request for a subject that is not eligible (no row, or a status
\* other than active/trialing) is answered with a token that has eligible =
\* false and exp = now + the short inactive TTL, whatever current_period_end is.
C15_IneligibleStillMinted ==
  (Asked /\ ~ActiveOrTrialing) =>
    /\ Minted
    /\ MintedClaim("eligible") = Bool(FALSE)
    /\ MintedTtl = InactiveTtl

\* C15 witness: a canceled subscription with a known period end asked for a token
C15_CanceledAsked ==
  /\ Asked
  /\ Snapshot.present
  /\ Snapshot.status = Str(<<"canceled">>)
  /\ PeriodEndKnown

\* C16: a token minted as eligible for a subscription with no known
\* current_period_end has exp = now + the maximum TTL.
C16_NoPeriodEndGetsMaxTtl ==
  (Minted /\ MintedClaim("eligible") = Bool(TRUE) /\ ~PeriodEndKnown) =>
    MintedTtl = MaxTtl

\* C16 witness: an eligible token for a subscription without a period end
C16_EligibleNoPeriodEnd ==
  /\ Minted
  /\ MintedClaim("eligible") = Bool(TRUE)
  /\ Snapshot.current_period_end = Null

\* an allow-list of plans is configured, and the plan of the row is on it
AllowListConfigured == parseEligiblePriceIds(ent.ELIGIBLE_PRICE_IDS) # {}
PlanOnAllowList ==
  /\ Snapshot.price_id.t = "string"
  /\ Snapshot.price_id.s \in parseEligiblePriceIds(ent.ELIGIBLE_PRICE_IDS)

\* C17: the eligible flag of a minted token is true exactly when the status is
\* active or trialing and, if an allow-list is configured, the plan is on it.
C17_EligibleIffStatusAndPlan ==
  Minted =>
    (MintedClaim("eligible") = Bool(TRUE)
       <=> (ActiveOrTrialing /\ (AllowListConfigured => PlanOnAllowList)))

\* C17 witness: a token for an active subscription while no allow-list is set
C17_ActiveWithoutAllowList ==
  /\ Minted
  /\ ActiveOrTrialing
  /\ ~AllowListConfigured

\* C18: a token minted as eligible for a subscription with a known
\* current_period_end has exp = min(now + maximum TTL, current_period_end +
\* grace), grace being 604800 s.
C18_ExpIncludesGrace ==
  (Minted /\ MintedClaim("eligible") = Bool(TRUE) /\ PeriodEndKnown) =>
    MintedClaim("exp").n = Min(ent.last.at + MaxTtl, PeriodEnd + GraceSeconds)

\* C18 witness: an eligible token for a period ending an hour from now
C18_EligibleEndingInAnHour ==
  /\ Minted
  /\ MintedClaim("eligible") = Bool(TRUE)
  /\ PeriodEndKnown
  /\ PeriodEnd - ent.last.at = 3600

\* C19: the identity token presented and the entitlement token minted for it
\* both have exp > iat, whatever the subject's row is.
C19_ExpAfterIat ==
  Minted =>
    /\ MintedClaim("exp").n > MintedClaim("iat").n
    /\ Field(claimsOf(ent.last.auth.token), "exp").n
         > Field(claimsOf(ent.last.auth.token), "iat").n

\* C19 witness: a token minted for an active subscription whose period ended
\* more than the grace period ago
C19_PeriodLongPast ==
  /\ Minted
  /\ ActiveOrTrialing
  /\ PeriodEndKnown
  /\ PeriodEnd + GraceSeconds < ent.last.at

\* ------------------- /magic/start with development aids (part_009:312-417)
DevBuckets ==
  {<<"rl:magic:start:ip:">> \o entIpOf(h) : h \in IpHeaders}
    \cup {<<"rl:magic:start:email:">> \o normalizeEmail(r) : r \in RawEmails}

\* the email field of the bodies posted to this /magic/start
DevEmails == {EmailA, EmailBad, <<>>}

\* the operation of this /magic/start that fails, if any
DevFaults == {"none", "db_insert", "mail"}

InitDev ==
  /\ now = 0
  /\ ticks = 0
  /\ reqs = 0
  /\ links = {}
  /\ kv = [b \in Buckets |-> NoEntry]
  /\ outbox = {}
  /\ issued = [e \in Emails |-> NeverIssued]
  /\ hist = <<>>
  /\ inflight = {}
  /\ tok = NoTokenUnderTest
  /\ calc = NoHashes
  /\ log = {}
  /\ keyring = NoKeys
  /\ lim = NoLimiterState
  /\ \E environment \in Environments, adminKey \in AdminKeySettings :
       ent = [phase |-> "serving", ENVIRONMENT |-> environment,
              ADMIN_API_KEY |-> adminKey, ELIGIBLE_PRICE_IDS |-> PriceIdsConfigured,
              table |-> [e \in Emails |-> NoRow],
              rl |-> [b \in DevBuckets |-> [count |-> 0, ttlEnd |-> 0]],
              last |-> NoRequest]

\* a deployment that treats every environment as a development one
devModeAlways(environment) == TRUE

\* c.env.ENVIRONMENT !== "prod"
devMode(environment) == environment # "prod"

\* POST /magic/start of part_009:312-417 with a JSON body {email: raw}
MagicStartDev(raw, ipHeader, adminKeyHeader, fault) ==
  LET email == normalizeEmail(raw)
      ip == entIpOf(ipHeader)
      valid == isValidEmail(email)
      ipAllowed == checkRateLimit(ent.rl, <<"rl:magic:start:ip:">> \o ip, StartIpLimit,
                                  RateWindow, now)
      emailAllowed ==
        IF valid
          THEN checkRateLimit(ipAllowed.store, <<"rl:magic:start:email:">> \o email,
                              StartEmailLimit, RateWindow, now)
          ELSE [store |-> ipAllowed.store, allowed |-> TRUE]
      entryLog ==
        {Console("[magic:start] handler entry", {}),
         Console("[magic:start] content-type", {}),
         Console("[magic:start] raw-body", {raw})}
      parsedLog == entryLog \cup {Console("[magic:start] parsed email", {email})}
      passedLog == parsedLog \cup {Console("[magic:start] passed rate limit", {})}
      done(resp, store, failed, lines) ==
        /\ ent' = [ent EXCEPT !.rl = store]
        /\ log' = lines
        /\ hist' = push(hist, Failed(Entry("start", email, <<>>, now, resp, links,
                                            NeverIssued), failed))
        /\ UNCHANGED <<links, outbox, issued>>
  IN
  /\ reqs < MaxReqs
  /\ reqs' = reqs + 1
  /\ UNCHANGED <<now, ticks, kv, inflight, tok, lim, calc, keyring>>
  /\ IF email = <<>>
       THEN done(OkTrue, ent.rl, "none",
                 entryLog \cup {Console("[magic:start] early-exit: missing email", {})})
     ELSE IF ~ipAllowed.allowed \/ ~emailAllowed.allowed \/ ~valid
       THEN done(OkTrue, emailAllowed.store, "none", parsedLog)
     ELSE
       \E code \in generateNumericCode(CodeLength) :
         LET tokenHash == hashString(hashInput(code, email))
             expiresAt == now + MagicTtl
             devLog == IF devMode(ent.ENVIRONMENT)
                         THEN {Console("magic_start_dev", {email, code})}
                       ELSE {}
             devHeader == IF devMode(ent.ENVIRONMENT) /\ adminKeyHeader = ent.ADMIN_API_KEY
                            THEN {Line("header", "x-bus-dev-code", {code})}
                          ELSE {}
         IN
         IF fault = "db_insert"
           THEN done(OkTrue, emailAllowed.store, fault,
                     passedLog \cup devLog
                       \cup {Console("magic_start_error", {<<"db_error">>})})
         ELSE
           /\ ent' = [ent EXCEPT !.rl = emailAllowed.store]
           /\ links' = insertOrReplace(links, Row(email, tokenHash, expiresAt, now, ip))
           /\ outbox' = IF fault # "mail" THEN outbox \cup {[to |-> email, code |-> code]}
                        ELSE outbox
           /\ log' = passedLog \cup devLog \cup devHeader \cup sendLog(email, fault # "mail")
                        \cup {Console("[magic:start] code persisted", {}),
                              Console("[magic:start] about to send", {email})}
           /\ issued' = [issued EXCEPT ![email] =
                           [code |-> code, at |-> now, tokens |-> 0, misses |-> 0,
                            prev |-> issued[email].code, prevAt |-> issued[email].at,
                            n |-> issued[email].n + 1]]
           /\ hist' = push(hist, Failed(Entry("start", email, code, now, OkTrue, links,
                                              issued[email]),
                                        IF fault = "mail" THEN fault ELSE "none"))

NextDev ==
  \/ Tick
  \/ \E raw \in DevEmails, ipHeader \in IpHeaders,
        adminKeyHeader \in AdminKeyHeaders, fault \in DevFaults :
       MagicStartDev(raw, ipHeader, adminKeyHeader, fault)

SpecDev == InitDev /\ [][NextDev]_vars

\* the service runs in production mode: ENVIRONMENT is "prod", or the routes
\* served do not look at ENVIRONMENT
InProduction == ent.phase = "serving" => ent.ENVIRONMENT = "prod"

\* a raw code among the values of a console line or a response header
CodeInLog ==
  \E l \in log, code \in generateNumericCode(CodeLength) : code \in l.data

\* a raw code in a text column of auth_magic_links
CodeInStore ==
  \E row \in links, code \in generateNumericCode(CodeLength) :
    row.code_hash = code \/ row.email = code \/ row.ip_address = code

\* C27: in production mode no console line, no response header and no row of
\* the challenge store holds a raw code; a stored challenge holds its hash.
C27_NoRawCodeInProduction ==
  InProduction =>
    /\ ~CodeInLog
    /\ ~CodeInStore
    /\ (hist # <<>> /\ Last.op = "start" /\ Last.code # <<>>) =>
         \E row \in links :
           /\ row.email = Last.email
           /\ row.code_hash = hashString(hashInput(Last.code, Last.email))

\* C27 witness: in production a code was issued, stored as a hash, handed to the
\* mail collaborator, and the request logged its lines
C27_IssuedInProduction ==
  /\ ent.phase = "serving"
  /\ ent.ENVIRONMENT = "prod"
  /\ hist # <<>>
  /\ Last.op = "start"
  /\ Last.code # <<>>
  /\ [to |-> Last.email, code |-> Last.code] \in outbox
  /\ Console("[magic:start] code persisted", {}) \in log

\* ------------------------------------------------ the challenge hash on its own
\* values of the server-side pepper: unset, and two secrets
Peppers == {<<>>, Pepper, <<"p", "2">>}

HashCodes == generateNumericCode(CodeLength) \cup {WrongCode}

InitHash ==
  /\ now = 0
  /\ ticks = 0
  /\ reqs = 0
  /\ links = {}
  /\ kv = [b \in Buckets |-> NoEntry]
  /\ outbox = {}
  /\ issued = [e \in Emails |-> NeverIssued]
  /\ hist = <<>>
  /\ inflight = {}
  /\ tok = NoTokenUnderTest
  /\ ent = NoEntitlementState
  /\ lim = NoLimiterState
  /\ log = {}
  /\ keyring = NoKeys
  /\ \E code \in HashCodes, email \in RawEmails, otherEmail \in RawEmails,
        pepper \in Peppers, otherPepper \in Peppers :
       calc = [phase |-> "args", code |-> code, email |-> email,
               otherEmail |-> otherEmail, pepper |-> pepper, otherPepper |-> otherPepper,
               stored |-> <<>>, inline |-> <<>>, underOtherPepper |-> <<>>,
               forOtherEmail |-> <<>>]

\* the hash as /magic/start stores it, by hashMagicCode and by the inline
\* hashString(`${code}:${email}`) of auth.ts; the same code and email under
\* another pepper; the same code and pepper for another email
HashChallenge ==
  /\ calc.phase = "args"
  /\ calc' = [calc EXCEPT
                !.phase = "hashed",
                !.stored = hashMagicCode(calc.code, calc.email, calc.pepper),
                !.inline = hashString(hashInput(calc.code, normalizeEmail(calc.email))),
                !.underOtherPepper = hashMagicCode(calc.code, calc.email, calc.otherPepper),
                !.forOtherEmail = hashMagicCode(calc.code, calc.otherEmail, calc.pepper)]
  /\ UNCHANGED <<now, ticks, reqs, links, kv, outbox, issued, hist, inflight, tok, ent, lim,
                 log, keyring>>

NextHash == HashChallenge

SpecHash == InitHash /\ [][NextHash]_vars

\* C26: the stored hash depends on the pepper and on the email: the same code
\* and email under two different peppers give different hashes, and the same
\* code for two different normalized emails gives different hashes.
C26_HashBindsEmailAndPepper ==
  calc.phase = "hashed" =>
    /\ calc.pepper # calc.otherPepper => calc.stored # calc.underOtherPepper
    /\ normalizeEmail(calc.email) # normalizeEmail(calc.otherEmail) =>
         calc.stored # calc.forOtherEmail

\* the half of C26 that holds: the hash binds the normalized email
C26_HashBindsEmail ==
  calc.phase = "hashed" =>
    /\ normalizeEmail(calc.email) # normalizeEmail(calc.otherEmail) =>
         calc.stored # calc.forOtherEmail
    /\ calc.inline = calc.stored

\* C26 witness: one code and email were hashed under two different peppers
C26_TwoPeppers ==
  /\ calc.phase = "hashed"
  /\ calc.pepper # calc.otherPepper
  /\ calc.pepper # <<>>
  /\ calc.otherPepper # <<>>

\* ----------------------------------------------------- the limiter on its own
MaxCalls == 5

\* limits and windows the limiter is called with: a window below the KV minimum
\* and the 15 minutes the routes use
LimiterLimits == {1, 2, 3}
LimiterWindows == {30, RateWindow}

LimiterScope == "magic:start:email"
LimiterKey == EmailA
LimiterBucket == bucketOf(LimiterScope, LimiterKey)

NoCall == [at |-> 0, limited |-> FALSE, status |-> 0, reset |-> 0, pre |-> NoEntry,
           preLive |-> FALSE]

InitLimiter ==
  /\ now = 0
  /\ ticks = 0
  /\ reqs = 0
  /\ links = {}
  /\ kv = [b \in Buckets |-> NoEntry]
  /\ outbox = {}
  /\ issued = [e \in Emails |-> NeverIssued]
  /\ hist = <<>>
  /\ inflight = {}
  /\ tok = NoTokenUnderTest
  /\ calc = NoHashes
  /\ log = {}
  /\ keyring = NoKeys
  /\ ent = NoEntitlementState
  /\ \E limit \in LimiterLimits, windowSec \in LimiterWindows :
       lim = [phase |-> "calling", limit |-> limit, windowSec |-> windowSec,
              n |-> 0, calls |-> 0, windowReset |-> 0, last |-> NoCall,
              admitted |-> <<>>]

\* one call of assertRateLimit(c, scope, key, limit, windowSec) on the bucket.
\* calls and windowReset follow the windows as a caller sees them: a window
\* opens with the first call, or with the first call at or after the reset of
\* the window before, and lasts max(windowSec, 60) seconds; admitted holds the
\* times of the calls that returned null
LimiterCall ==
  LET r == assertRateLimit(kv, LimiterScope, LimiterKey, lim.limit, lim.windowSec, now)
      opens == lim.calls = 0 \/ now >= lim.windowReset
  IN
  /\ lim.n < MaxCalls
  /\ kv' = r.store
  /\ lim' = [lim EXCEPT
               !.n = @ + 1,
               !.calls = IF opens THEN 1 ELSE @ + 1,
               !.windowReset = IF opens THEN now + Max(lim.windowSec, MinTtl) ELSE @,
               !.admitted = IF r.limited THEN @ ELSE Append(@, now),
               !.last = [at |-> now, limited |-> r.limited,
                         status |-> IF r.limited THEN RateLimited(r.reset).status ELSE 0,
                         reset |-> r.reset, pre |-> kv[LimiterBucket],
                         preLive |-> kvGet(kv, LimiterBucket, now) # NoEntry]]
  /\ UNCHANGED <<now, ticks, reqs, links, outbox, issued, hist, inflight, tok, ent, calc,
                 log, keyring>>

NextLimiter ==
  \/ Tick
  \/ LimiterCall

SpecLimiter == InitLimiter /\ [][NextLimiter]_vars

\* C11: of the sequential calls on one bucket inside one window the first
\* `limit` are admitted and every further one is rejected with status 429
\* carrying the reset the window opened with; a rejected call leaves the stored
\* reset where it was.
C11_WindowAdmitsLimitThenRejects ==
  (lim.phase = "calling" /\ lim.n > 0) =>
    /\ lim.last.limited <=> lim.calls > lim.limit
    /\ lim.last.limited =>
         /\ lim.last.status = 429
         /\ lim.last.reset = lim.windowReset
         /\ kv[LimiterBucket].reset = lim.windowReset
         /\ kv[LimiterBucket].reset = lim.last.pre.reset
    /\ ~lim.last.limited => lim.last.reset = lim.windowReset

\* C11 witness: limit 3, window 900 s: three calls were admitted and the fourth,
\* later in the same window, was rejected with the reset of the first
C11_Witness ==
  /\ lim.phase = "calling"
  /\ lim.limit = 3
  /\ lim.windowSec = RateWindow
  /\ lim.calls = 4
  /\ lim.last.limited
  /\ lim.last.at > 0
  /\ lim.last.reset = RateWindow

\* the last call found a stored entry whose reset had passed
CalledOnStaleEntry ==
  /\ lim.phase = "calling"
  /\ lim.n > 0
  /\ lim.last.preLive
  /\ lim.last.pre.reset <= lim.last.at

\* C12: a call that finds a stored entry whose reset has passed is admitted and
\* stores count 1 with reset = now + window (window = max(windowSec, 60)),
\* whatever the stale count was.
C12_StaleWindowStartsAfresh ==
  CalledOnStaleEntry =>
    /\ ~lim.last.limited
    /\ kv[LimiterBucket].count = 1
    /\ kv[LimiterBucket].reset = lim.last.at + Max(lim.windowSec, MinTtl)
    /\ lim.last.reset = lim.last.at + Max(lim.windowSec, MinTtl)

\* C12 witness: the stale entry held a count above the limit, and the call was
\* admitted with count 1
C12_Witness ==
  /\ CalledOnStaleEntry
  /\ lim.last.pre.count > lim.limit
  /\ ~lim.last.limited
  /\ kv[LimiterBucket].count = 1

\* the length of a window of the limiter under test
LimiterWindow == Max(lim.windowSec, MinTtl)

\* how many calls were admitted at a time in [from, from + LimiterWindow)
AdmittedFrom(from) ==
  Cardinality({i \in 1..Len(lim.admitted) :
                 lim.admitted[i] >= from /\ lim.admitted[i] < from + LimiterWindow})

\* C29: with sequential calls on one bucket at most `limit` calls are admitted
\* in a window, and at most 2 x limit in any interval as long as the window.
C29_BoundaryBurstBound ==
  (lim.phase = "calling" /\ lim.n > 0) =>
    /\ AdmittedFrom(lim.windowReset - LimiterWindow) <= lim.limit
    /\ \A i \in 1..Len(lim.admitted) : AdmittedFrom(lim.admitted[i]) <= 2 * lim.limit

\* C29 witness: calls clustered at a window edge: more than `limit` calls were
\* admitted within an interval shorter than the window
C29_BurstAtWindowEdge ==
  /\ lim.phase = "calling"
  /\ lim.limit = 2
  /\ lim.windowSec = RateWindow
  /\ \E i \in 1..Len(lim.admitted) :
       /\ lim.admitted[i] > 0
       /\ AdmittedFrom(lim.admitted[i]) > lim.limit

\* -------------------------------------- concurrent calls of the limiter
\* calls of assertRateLimit on one bucket that may overlap
MaxRaceCalls == 3
RaceCalls == 1..MaxRaceCalls
RaceLimits == {1, 2}

NotCalled == [stage |-> "idle", at |-> 0, seq |-> 0, raw |-> NoEntry, limited |-> FALSE,
              reset |-> 0]

InitLimiterRace ==
  /\ now = 0
  /\ ticks = 0
  /\ reqs = 0
  /\ links = {}
  /\ kv = [b \in Buckets |-> NoEntry]
  /\ outbox = {}
  /\ issued = [e \in Emails |-> NeverIssued]
  /\ hist = <<>>
  /\ inflight = {}
  /\ tok = NoTokenUnderTest
  /\ calc = NoHashes
  /\ log = {}
  /\ keyring = NoKeys
  /\ ent = NoEntitlementState
  /\ \E limit \in RaceLimits :
       lim = [phase |-> "racing", limit |-> limit, windowSec |-> RateWindow, seq |-> 0,
              call |-> [c \in RaceCalls |-> NotCalled]]

\* a call reads the clock and its kv.get resolves (rate-limit.ts:14-16)
LimiterRead(c) ==
  /\ lim.phase = "racing"
  /\ lim.call[c].stage = "idle"
  /\ lim' = [lim EXCEPT !.seq = @ + 1,
                         !.call[c] = [NotCalled EXCEPT !.stage = "read", !.at = now,
                                                      !.seq = lim.seq + 1,
                                                      !.raw = kvGet(kv, LimiterBucket, now)]]
  /\ UNCHANGED <<now, ticks, reqs, links, kv, outbox, issued, hist, inflight, tok, ent, calc,
                 log, keyring>>

\* the call goes on with what it read: it counts itself, its kv.put is applied
\* with the TTL it computed, and it returns (rate-limit.ts:17-44)
LimiterWrite(c) ==
  LET seen == [kv EXCEPT ![LimiterBucket] =
                 IF lim.call[c].raw = NoEntry THEN NoEntry
                 ELSE [lim.call[c].raw EXCEPT !.ttlEnd = lim.call[c].at + 1]]
      r == assertRateLimit(seen, LimiterScope, LimiterKey, lim.limit, lim.windowSec,
                           lim.call[c].at)
      put == r.store[LimiterBucket]
  IN
  /\ lim.phase = "racing"
  /\ lim.call[c].stage = "read"
  /\ kv' = [kv EXCEPT ![LimiterBucket] =
              [put EXCEPT !.ttlEnd = now + (put.ttlEnd - lim.call[c].at)]]
  /\ lim' = [lim EXCEPT !.call[c].stage = "done",
                         !.call[c].limited = r.limited,
                         !.call[c].reset = r.reset]
  /\ UNCHANGED <<now, ticks, reqs, links, outbox, issued, hist, inflight, tok, ent, calc,
                 log, keyring>>

NextLimiterRace ==
  \/ Tick
  \/ \E c \in RaceCalls : LimiterRead(c)
  \/ \E c \in RaceCalls : LimiterWrite(c)

SpecLimiterRace == InitLimiterRace /\ [][NextLimiterRace]_vars

\* the calls made up to and including call c, since the window with reset `reset`
\* opened
MadeInWindow(c, reset) ==
  {d \in RaceCalls :
     /\ lim.call[d].stage # "idle"
     /\ lim.call[d].seq <= lim.call[c].seq
     /\ lim.call[d].at >= reset - Max(lim.windowSec, MinTtl)}

IpScopes == {"magic:start:ip", "magic:verify:ip"}
EmailScopes == Scopes \ IpScopes

\* the step handled a request that went on to the challenge store: a start that
\* generated a code, a verify that ran its SELECT
ReachedStore ==
  /\ reqs' = reqs + 1
  /\ hist' # <<>>
  /\ IF hist'[1].op = "start" THEN hist'[1].code # <<>>
     ELSE hist'[1].resp.status \notin {400, 429}

\* the step counted the request in a bucket of one of the scopes
CountedIn(scopes, keys) ==
  \E scope \in scopes, key \in keys : kv'[bucketOf(scope, key)] # kv[bucketOf(scope, key)]

\* C13: every /magic/start and /magic/verify that goes on to the challenge
\* store was counted in an IP-scoped bucket and in an email-scoped bucket.
C13_BothScopesGate ==
  [][ReachedStore => CountedIn(IpScopes, Ips) /\ CountedIn(EmailScopes, Emails)]_vars

\* C13 witness: a start that stored a challenge, counted under the address and
\* under the email
C13_StartCountedInBoth ==
  /\ hist # <<>>
  /\ Last.op = "start"
  /\ Last.code # <<>>
  /\ kv[bucketOf("magic:start:ip", DefaultIp)].count > 0
  /\ kv[bucketOf("magic:start:email", Last.email)].count > 0

\* --------------------------------------- the order of effects of /magic/start
\* a bucket that earlier requests, made in the first second, have counted up
CountedUp(count) ==
  IF count = 0 THEN NoEntry
  ELSE [count |-> count, reset |-> RateWindow, ttlEnd |-> RateWindow]

\* the counts the address and the email start with: none, or one below the limit
InitOrder ==
  /\ now = 0
  /\ ticks = 0
  /\ reqs = 0
  /\ links = {}
  /\ outbox = {}
  /\ issued = [e \in Emails |-> NeverIssued]
  /\ hist = <<>>
  /\ inflight = {}
  /\ tok = NoTokenUnderTest
  /\ calc = NoHashes
  /\ log = {}
  /\ keyring = NoKeys
  /\ ent = NoEntitlementState
  /\ lim = NoLimiterState
  /\ \E byIp \in {0, StartIpLimit - 1}, byEmail \in {0, StartEmailLimit - 1} :
       kv = [b \in Buckets |->
               IF b = bucketOf("magic:start:ip", DefaultIp) THEN CountedUp(byIp)
               ELSE IF b = bucketOf("magic:start:email", EmailA) THEN CountedUp(byEmail)
               ELSE NoEntry]

NextOrder ==
  \/ Tick
  \/ \E raw \in {EmailA, EmailAPadded}, ipHeader \in IpHeaders, fault \in StartFaults :
       MagicStart(raw, ipHeader, fault)

SpecOrder == InitOrder /\ [][NextOrder]_vars

\* the step handled a /magic/start for a well-formed email
StartHandled ==
  /\ reqs' = reqs + 1
  /\ hist' # <<>>
  /\ hist'[1].op = "start"
  /\ hist'[1].email \in Emails

\* the step left the bucket of the scope as it was, or wrote it
Untouched(scope, key) == kv'[bucketOf(scope, key)] = kv[bucketOf(scope, key)]
OverLimit(scope, key, limit) == kv'[bucketOf(scope, key)].count > limit

\* the step left the challenge store and the outbox as they were
NothingIssued == links' = links /\ outbox' = outbox

\* the effects of one /magic/start, in the order address check, email check,
\* persist, send: the request ended at a stage has every earlier effect and no
\* later one
EffectsInOrder ==
  LET last == hist'[1]
      ipOver == OverLimit("magic:start:ip", DefaultIp, StartIpLimit)
      emailOver == OverLimit("magic:start:email", last.email, StartEmailLimit)
      sent == outbox' \ outbox
      persisted ==
        \E row \in links' :
          /\ row.email = last.email
          /\ row.code_hash = hashString(hashInput(last.code, last.email))
          /\ row.created_at = now
  IN
  /\ (last.resp.status = 429 /\ ipOver) =>
       /\ Untouched("magic:start:email", last.email)
       /\ NothingIssued
  /\ (last.resp.status = 429 /\ ~ipOver) =>
       /\ ~Untouched("magic:start:ip", DefaultIp)
       /\ emailOver
       /\ NothingIssued
  /\ last.fault = "kv_ip" => kv' = kv /\ NothingIssued
  /\ last.fault = "kv_email" =>
       /\ ~Untouched("magic:start:ip", DefaultIp)
       /\ Untouched("magic:start:email", last.email)
       /\ NothingIssued
  /\ last.fault = "db_insert" =>
       /\ ~Untouched("magic:start:ip", DefaultIp)
       /\ ~Untouched("magic:start:email", last.email)
       /\ NothingIssued
  /\ last.fault = "mail" => persisted /\ sent = {}
  /\ links' # links => ~ipOver /\ ~emailOver
  /\ sent # {} =>
       /\ sent = {[to |-> last.email, code |-> last.code]}
       /\ persisted
       /\ ~ipOver
       /\ ~emailOver

\* C31: in /magic/start the effects occur in the order address-scope check,
\* email-scope check, challenge persist, email send; a rejection by a scope
\* ends the request before any later effect, and a code is emailed only after
\* its hash has been persisted.
C31_StartEffectsInOrder ==
  [][StartHandled => EffectsInOrder]_vars

\* C31 witness: a start was rejected under the email scope after it had been
\* counted under the address scope, and nothing was stored or sent
C31_RejectedByEmailScope ==
  /\ hist # <<>>
  /\ Last.op = "start"
  /\ Last.resp.status = 429
  /\ kv[bucketOf("magic:start:ip", DefaultIp)].count <= StartIpLimit
  /\ kv[bucketOf("magic:start:ip", DefaultIp)].count > 0
  /\ kv[bucketOf("magic:start:email", Last.email)].count > StartEmailLimit
  /\ links = Last.pre

\* ------------------------------------------------- the sequential magic flow
\* the limiter let the last request through and its input was well-formed
Admitted == Last.resp.status \notin {400, 429}

\* the last request was a verify for an email with an issued challenge, carrying
\* the code of the latest issuance
VerifiedLatestCode ==
  /\ hist # <<>>
  /\ Last.op = "verify"
  /\ Last.email \in Emails
  /\ Last.before.n > 0
  /\ Last.code = Last.before.code

\* the latest issuance had not expired when the last request was handled
BeforeExpiry == Last.at < Last.before.at + MagicTtl

\* the last response carries an identity token for the email of the request
ReturnedTokenForEmail ==
  /\ Last.resp.ok
  /\ Last.resp.token # NoToken
  /\ verifyIdentityToken(Last.resp.token, IdentityPublicKey, Last.at) = Subject(Last.email)

\* C1: with requests handled one after another, the first verify carrying the
\* issued code before expiry returns an identity token for the email and deletes
\* the challenge; every later verify with that code and no start in between
\* mints no token and, when the limiter admits it, answers invalid_or_expired;
\* so no issuance ever yields more than one token.
C1_OneTimeUseSequential ==
  /\ \A e \in Emails : issued[e].tokens <= 1
  /\ VerifiedLatestCode =>
       /\ (Last.before.tokens = 0 /\ BeforeExpiry /\ Admitted) =>
            /\ ReturnedTokenForEmail
            /\ selectByEmail(Last.pre, Last.email) # {}
            /\ selectByEmail(links, Last.email) = {}
       /\ Last.before.tokens > 0 =>
            /\ Last.resp.token = NoToken
            /\ Admitted => Last.resp = InvalidOrExpired

\* C1 witness: a token was minted for the issued code, and the last request
\* presented the same code again before expiry and was answered invalid_or_expired
C1_Witness ==
  /\ VerifiedLatestCode
  /\ BeforeExpiry
  /\ Last.before.tokens = 1
  /\ issued[Last.email].tokens = 1
  /\ Last.resp = InvalidOrExpired

\* C4: every stored challenge is keyed by a normalized email and no email has
\* two records; after a second issuance for the same email a verify with the
\* first (different) code is rejected, leaving the live record in place, while
\* the second code is accepted.
C4_OneRecordPerEmail ==
  /\ \A r \in links : r.email \in Emails /\ normalizeEmail(r.email) = r.email
  /\ \A e \in Emails : Cardinality(selectByEmail(links, e)) <= 1
  /\ (/\ hist # <<>>
      /\ Last.op = "verify"
      /\ Last.email \in Emails
      /\ Last.before.n >= 2) =>
       /\ (Last.code = Last.before.prev /\ Last.code # Last.before.code) =>
            /\ Last.resp.token = NoToken
            /\ BeforeExpiry => links = Last.pre
            /\ Admitted => Last.resp = InvalidOrExpired
       /\ (/\ Last.code = Last.before.code
           /\ Last.before.tokens = 0
           /\ BeforeExpiry
           /\ Admitted) => ReturnedTokenForEmail

\* C4 witness: two issuances for one email with different codes, and the last
\* request presented the first code while it was unexpired and was rejected
C4_Witness ==
  /\ hist # <<>>
  /\ Last.op = "verify"
  /\ Last.email \in Emails
  /\ Last.before.n >= 2
  /\ Last.code = Last.before.prev
  /\ Last.code # Last.before.code
  /\ Last.at < Last.before.prevAt + MagicTtl
  /\ Cardinality(selectByEmail(links, Last.email)) = 1
  /\ Last.resp = InvalidOrExpired

\* the last request was a verify that found a live record whose hash differs from
\* the hash of the submitted code
MismatchOnLiveRecord ==
  /\ hist # <<>>
  /\ Last.op = "verify"
  /\ Admitted
  /\ \E record \in selectByEmail(Last.pre, Last.email) :
       /\ ~isExpired(record, Last.at)
       /\ record.code_hash # hashString(hashInput(Last.code, Last.email))

\* C5: a verify with a wrong code against a live challenge leaves the table as
\* it was (same hash, same expiry) and answers failure without a token; a verify
\* with the correct code after such a mismatch, before expiry, still succeeds.
C5_WrongCodeLeavesRecord ==
  /\ MismatchOnLiveRecord =>
       /\ links = Last.pre
       /\ Last.resp = InvalidOrExpired
  /\ (/\ VerifiedLatestCode
      /\ Last.before.misses = 1
      /\ Last.before.tokens = 0
      /\ BeforeExpiry
      /\ Admitted) => ReturnedTokenForEmail

\* C5 witness: the correct code was accepted after a mismatch on the same challenge
C5_Witness ==
  /\ VerifiedLatestCode
  /\ Last.before.misses = 1
  /\ Last.before.tokens = 0
  /\ BeforeExpiry
  /\ ReturnedTokenForEmail

\* ------------------------------------------------- the signing keys of a process
\* requests served by one process (one isolate)
MaxKeyReqs == 4
KeyRequests == 1..MaxKeyReqs

\* module state of index.ts after load: let cachedEntitlementPrivateKey = null
InitKeys ==
  /\ now = 0
  /\ ticks = 0
  /\ reqs = 0
  /\ links = {}
  /\ kv = [b \in Buckets |-> NoEntry]
  /\ outbox = {}
  /\ issued = [e \in Emails |-> NeverIssued]
  /\ hist = <<>>
  /\ inflight = {}
  /\ tok = NoTokenUnderTest
  /\ calc = NoHashes
  /\ log = {}
  /\ ent = NoEntitlementState
  /\ lim = NoLimiterState
  /\ keyring = [phase |-> "serving",
                cachedEntitlementPrivateKey |-> Null,
                imports |-> [entitlement |-> 0, identity |-> 0],
                at |-> [r \in KeyRequests |-> "idle"]]

\* a request calls importEntitlementPrivateKey (index.ts:72-75): a cached key is
\* returned at once; otherwise crypto.subtle.importKey is called and awaited
ImportEntitlementBegin(r) ==
  /\ keyring.phase = "serving"
  /\ keyring.at[r] = "idle"
  /\ IF Falsy(keyring.cachedEntitlementPrivateKey)
       THEN keyring' = [keyring EXCEPT !.at[r] = "importing",
                                       !.imports.entitlement = @ + 1]
     ELSE keyring' = [keyring EXCEPT !.at[r] = "reused"]
  /\ UNCHANGED <<now, ticks, reqs, links, kv, outbox, issued, hist, inflight, tok, ent,
                 lim, calc, log>>

\* the awaited importKey of request r resolves: the result is assigned to the
\* cache and returned (index.ts:75-82)
ImportEntitlementComplete(r) ==
  /\ keyring.phase = "serving"
  /\ keyring.at[r] = "importing"
  /\ keyring' = [keyring EXCEPT !.at[r] = "imported",
                                 !.cachedEntitlementPrivateKey = Str(PrivateKey("entitlement"))]
  /\ UNCHANGED <<now, ticks, reqs, links, kv, outbox, issued, hist, inflight, tok, ent,
                 lim, calc, log>>

\* a request mints an identity token: signIdentityToken imports the private key
\* from the environment on every call (crypto.ts:158-166)
SignIdentityImport(r) ==
  /\ keyring.phase = "serving"
  /\ keyring.at[r] = "idle"
  /\ keyring' = [keyring EXCEPT !.at[r] = "identity",
                                 !.imports.identity = @ + 1]
  /\ UNCHANGED <<now, ticks, reqs, links, kv, outbox, issued, hist, inflight, tok, ent,
                 lim, calc, log>>

NextKeys ==
  \/ \E r \in KeyRequests : ImportEntitlementBegin(r)
  \/ \E r \in KeyRequests : ImportEntitlementComplete(r)
  \/ \E r \in KeyRequests : SignIdentityImport(r)

SpecKeys == InitKeys /\ [][NextKeys]_vars

\* C28: within one process each signing key is imported at most once, whatever
\* the number and interleaving of requests; later mints reuse the cached key.
C28_EachKeyImportedOnce ==
  keyring.phase = "serving" =>
    /\ keyring.imports.entitlement <= 1
    /\ keyring.imports.identity <= 1

\* C28, the part that holds: once the cache is set, a request that starts does
\* not import the entitlement key again
C28_CachedKeyIsReused ==
  keyring.phase = "serving" =>
    (\A r \in KeyRequests : keyring.at[r] = "reused" =>
       ~Falsy(keyring.cachedEntitlementPrivateKey))

\* C28 witness: two requests are inside importEntitlementPrivateKey at once
C28_TwoImportsInFlight ==
  /\ keyring.phase = "serving"
  /\ \E r1, r2 \in KeyRequests :
       /\ r1 # r2
       /\ keyring.at[r1] = "importing"
       /\ keyring.at[r2] = "importing"

\* ------------------------------------------- the two identity-token verifiers
\* a signed token is given to both verifiers at the same time with the same key:
\* verifyIdentityToken of crypto.ts and verifyIdentityJwt of part_008
VerifyBoth(pair) ==
  /\ tok.phase = "signed"
  /\ tok' = SetField([tok EXCEPT !.phase = "verified", !.verifyKey = pair,
                                 !.verifiedAt = now,
                                 !.result = verifyIdentityToken(tok.token, PublicKey(pair),
                                                                now)],
                     "jwt", verifyIdentityJwt(tok.token, PublicKey(pair), now))
  /\ UNCHANGED <<now, ticks, reqs, links, kv, outbox, issued, hist, inflight, ent, lim, calc,
                 log, keyring>>

NextVerifiers ==
  \/ TokenTick
  \/ \E email \in SignEmails, pair \in KeyPairs : SignIdentity(email, pair)
  \/ \E pair \in KeyPairs : VerifyBoth(pair)

SpecVerifiers == Init /\ [][NextVerifiers]_vars

\* C38: the two identity-token verifiers accept the same tokens: for every token
\* of signIdentityToken and every verification time both return the same
\* subject or both reject.
C38_VerifiersAgree ==
  (tok.phase = "verified" /\ tok.how = "signIdentityToken") => tok.jwt = tok.result

\* C38 witness: one second after the seven days both verifiers turned the token
\* away, though the key matched
C38_BothRejectAfterSevenDays ==
  /\ tok.phase = "verified"
  /\ tok.how = "signIdentityToken"
  /\ tok.verifyKey = tok.signKey
  /\ tok.verifiedAt = tok.signedAt + IdentityTtl + 1
  /\ tok.jwt = Rejected
  /\ tok.result = Rejected

\* at the last second of the seven days both returned the subject
C38_BothAcceptAtSevenDays ==
  /\ tok.phase = "verified"
  /\ tok.how = "signIdentityToken"
  /\ tok.verifiedAt = tok.signedAt + IdentityTtl
  /\ tok.jwt = Subject(toLowerCase(tok.email))
  /\ tok.result = tok.jwt

\* --------------------------- entitlement tokens given to the identity verifier
\* the entitlement token minted by the last request is presented as an identity
\* token: verifyIdentityToken is run on it with the public key of a key pair; the
\* entitlement pair stands for identity and entitlement keys configured with the
\* same key material
PresentAsIdentity(pair) ==
  /\ Minted
  /\ tok' = [phase |-> "presented", token |-> ent.last.resp.token,
             signer |-> ent.last.handler, verifyKey |-> pair, verifiedAt |-> now,
             result |-> verifyIdentityToken(ent.last.resp.token, PublicKey(pair), now)]
  /\ UNCHANGED <<now, ticks, reqs, links, kv, outbox, issued, hist, inflight, ent, lim, calc,
                 log, keyring>>

\* the subject's row: none, a subscription that is active for a while yet, a
\* canceled one
KindRows ==
  {NoRow,
   EntitlementRow(Str(<<"active">>), Str(PricePro), Num(PeriodsStart + 3600)),
   EntitlementRow(Str(<<"canceled">>), Str(PricePro), Num(PeriodsStart - 100))}

InitKinds ==
  /\ now = PeriodsStart
  /\ ticks = 0
  /\ reqs = 0
  /\ links = {}
  /\ kv = [b \in Buckets |-> NoEntry]
  /\ outbox = {}
  /\ issued = [e \in Emails |-> NeverIssued]
  /\ hist = <<>>
  /\ inflight = {}
  /\ tok = NoTokenUnderTest
  /\ calc = NoHashes
  /\ log = {}
  /\ keyring = NoKeys
  /\ lim = NoLimiterState
  /\ \E row \in KindRows :
       ent = [phase |-> "serving", ENVIRONMENT |-> "prod", ADMIN_API_KEY |-> Undefined,
              ELIGIBLE_PRICE_IDS |-> PriceIdsConfigured,
              table |-> [e \in Emails |-> IF e = EmailA THEN row ELSE NoRow],
              rl |-> [b \in EntBuckets |-> [count |-> 0, ttlEnd |-> 0]],
              last |-> NoRequest]

\* both entitlement signers, asked by a signed-in subject
NextKinds ==
  \/ Tick
  \/ EntitlementToken(FreshBearer)
  \/ EntitlementTokenHandler(FreshBearer, Undefined, Undefined, <<>>)
  \/ \E pair \in KeyPairs : PresentAsIdentity(pair)

SpecKinds == InitKinds /\ [][NextKinds]_vars

\* C39: no entitlement token is accepted as an identity token: every token of
\* an entitlement signer is rejected by verifyIdentityToken, also under the key
\* that signed it.
C39_EntitlementTokenNotIdentity ==
  tok.phase = "presented" => tok.result = Rejected

\* C39 witness: an entitlement token of the route, whose audience is that of
\* identity tokens, was presented unexpired under the key that signed it and
\* was rejected
C39_RejectedUnderSameKey ==
  /\ tok.phase = "presented"
  /\ tok.signer = "route"
  /\ tok.verifyKey = "entitlement"
  /\ signatureValid(tok.token, PublicKey(tok.verifyKey))
  /\ Field(claimsOf(tok.token), "aud") = Str(<<"bus-auth">>)
  /\ Field(claimsOf(tok.token), "exp").n >= tok.verifiedAt
  /\ tok.result = Rejected

\* the same for a token of index.ts
C39_IndexTokenRejectedUnderSameKey ==
  /\ tok.phase = "presented"
  /\ tok.signer = "index"
  /\ tok.verifyKey = "entitlement"
  /\ signatureValid(tok.token, PublicKey(tok.verifyKey))
  /\ tok.result = Rejected

\* --------------------------------------- the hash comparison, step by step
\* constantTimeEqual of auth.ts:10-17 and timingSafeEqual of hash.ts:8-15 are
\* the same function under two names
MaxCompareLen == 3
CompareChars == {"0", "f"}
CompareStrings ==
  UNION {[1..n -> CompareChars] : n \in 0..MaxCompareLen}

\* charCodeAt of the characters compared
charCode(ch) == IF ch = "0" THEN 48 ELSE 102

RECURSIVE bitXor(_, _)
\* x ^ y
bitXor(x, y) ==
  IF x = 0 THEN y
  ELSE IF y = 0 THEN x
  ELSE (((x % 2) + (y % 2)) % 2) + 2 * bitXor(x \div 2, y \div 2)

RECURSIVE bitOr(_, _)
\* x | y
bitOr(x, y) ==
  IF x = 0 THEN y
  ELSE IF y = 0 THEN x
  ELSE (IF (x % 2) + (y % 2) > 0 THEN 1 ELSE 0) + 2 * bitOr(x \div 2, y \div 2)

InitCompare ==
  /\ now = 0
  /\ ticks = 0
  /\ reqs = 0
  /\ links = {}
  /\ kv = [b \in Buckets |-> NoEntry]
  /\ outbox = {}
  /\ issued = [e \in Emails |-> NeverIssued]
  /\ hist = <<>>
  /\ inflight = {}
  /\ tok = NoTokenUnderTest
  /\ log = {}
  /\ keyring = NoKeys
  /\ ent = NoEntitlementState
  /\ lim = NoLimiterState
  /\ \E a \in CompareStrings, b \in CompareStrings :
       calc = [phase |-> "called", a |-> a, b |-> b, i |-> 0, result |-> 0, steps |-> 0,
               returned |-> FALSE]

\* a loop that ends at the first difference
stopsAtDifference(c) == c.i < Len(c.a) /\ c.result = 0

\* i < a.length
loopContinues(c) == c.i < Len(c.a)

\* if (a.length !== b.length) return false; let result = 0
CompareLengths ==
  /\ calc.phase = "called"
  /\ calc' = IF Len(calc.a) # Len(calc.b)
               THEN [calc EXCEPT !.phase = "returned", !.returned = FALSE]
             ELSE [calc EXCEPT !.phase = "loop"]
  /\ UNCHANGED <<now, ticks, reqs, links, kv, outbox, issued, hist, inflight, tok, ent, lim,
                 log, keyring>>

\* one pass of the loop: result |= a.charCodeAt(i) ^ b.charCodeAt(i)
CompareStep ==
  /\ calc.phase = "loop"
  /\ loopContinues(calc)
  /\ calc' = [calc EXCEPT
                !.result = bitOr(@, bitXor(charCode(calc.a[calc.i + 1]),
                                           charCode(calc.b[calc.i + 1]))),
                !.i = @ + 1,
                !.steps = @ + 1]
  /\ UNCHANGED <<now, ticks, reqs, links, kv, outbox, issued, hist, inflight, tok, ent, lim,
                 log, keyring>>

\* return result === 0
CompareReturn ==
  /\ calc.phase = "loop"
  /\ ~loopContinues(calc)
  /\ calc' = [calc EXCEPT !.phase = "returned", !.returned = (calc.result = 0)]
  /\ UNCHANGED <<now, ticks, reqs, links, kv, outbox, issued, hist, inflight, tok, ent, lim,
                 log, keyring>>

NextCompare ==
  \/ CompareLengths
  \/ CompareStep
  \/ CompareReturn

SpecCompare == InitCompare /\ [][NextCompare]_vars

\* C40: the comparison returns true exactly when the two strings are equal, and
\* for strings of equal length it passes over every position, whatever the
\* position of the first difference; only a length mismatch returns early.
C40_ComparisonExaminesEveryPosition ==
  calc.phase = "returned" =>
    /\ calc.returned <=> calc.a = calc.b
    /\ calc.returned <=> constantTimeEqual(calc.a, calc.b)
    /\ calc.steps = IF Len(calc.a) = Len(calc.b) THEN Len(calc.a) ELSE 0

\* C40 witness: two strings of full length that differ in the first position
\* were compared in as many steps as the length
C40_DifferAtFirstPosition ==
  /\ calc.phase = "returned"
  /\ Len(calc.a) = MaxCompareLen
  /\ Len(calc.b) = MaxCompareLen
  /\ calc.a[1] # calc.b[1]
  /\ calc.steps = MaxCompareLen
  /\ ~calc.returned

====
